---- MODULE Spec2Model ----
(***************************************************************************)
(* I.V.O.R. backend: the chat endpoint (distress classifier, session       *)
(* store, dialogue router, dialogue scripts) of backend/dist/server.js and *)
(* the resource store adapter of backend/dist/services/knowledgeService.js.*)
(*                                                                         *)
(* Texts are TLA+ strings; includes / toLowerCase / substring are computed *)
(* character by character.  A reply is a record [t, args]: t names the     *)
(* template literal of the source that produced it and args lists the      *)
(* values interpolated into it, in order.                                  *)
(*                                                                         *)
(* The analytics maps written by trackConversation (conversationMetrics,   *)
(* learningPatterns, serviceGaps) are never read by the chat handler, the  *)
(* session store or the resource adapter and are left out.                 *)
(***************************************************************************)
EXTENDS Integers, Sequences, FiniteSets, TLC

VARIABLES
    userSessions,        \* server.js:532  Map sessionId -> session
    ivor_conversations,  \* table written by the upsert of server.js:450
    ivor_resources,      \* table read by KnowledgeService
    clock,               \* value of new Date(), one tick per request
    request,             \* body of the last request handled
    response,            \* HTTP response to the last request
    calls,               \* store operations awaited while handling it
    result,              \* value returned by the last direct adapter call
    inflight             \* chat turns received, each with the await it is at

vars == <<userSessions, ivor_conversations, ivor_resources, clock,
          request, response, calls, result, inflight>>

(***************************************************************************)
(* Request bodies the specifications send                                  *)
(***************************************************************************)
\* a broad set, for short conversations
Messages ==
    { "", "hello",
      "I want to END MY LIFE", "main menu, this is an emergency",
      "hopeless and alone", "I am depressed",
      "wellness", "main menu",
      "need housing", "legal rights", "this is urgent",
      "any support?", "Support", "community support" }

\* one session carried through the first steps of each script
DialogueMessages ==
    { "wellness", "I have a problem", "journal", "health advice", "morning",
      "main menu", "I want to END MY LIFE", "start over, this is an emergency" }

\* a whole wellness assessment
WellnessMessages ==
    { "wellness", "I value family and rest", "main menu", "I want to END MY LIFE" }

\* the journaling rituals
JournalingMessages ==
    { "journal", "Morning please", "evening", "ready", "finish my thesis",
      "main menu" }

LongProblem ==
    "My landlord wants to raise the rent by a third from next month and I do not know whether to move out, to negotiate with him or to look for a second job to pay for it"

\* problem solving: a description, then the choice of a mental model
ProblemMessages ==
    { "I have a problem", "my rent went up", LongProblem,
      "Circle Of Control", "circle of control, not inversion",
      "circle of control or the main menu", "circle of control, I feel hopeless and alone",
      "tell me more", "main menu" }

\* messages that carry the triggers of several scripts, of a script and the
\* generic service check, of the generic check alone, of a resource lookup,
\* and of none
TriggerMessages ==
    { "healthcare and wellness", "a habit I am stuck with",
      "solve it with a ritual", "journal coaching", "habit coaching",
      "coaching", "need housing", "hello", "main menu" }

\* problem solving: a description, then a model chosen by its name or by its
\* id written with spaces
ModelMessages ==
    { "I have a problem", "my rent went up",
      "First Principles Thinking", "first principles", "Inversion",
      "Occam's Razor", "occams razor", "circle of control",
      "Second-Order Thinking", "second order thinking" }

\* messages that ask for resources, alone or together with a generic service
\* word or a distress keyword
ResourceMessages ==
    { "therapy", "need housing", "help with housing", "housing emergency",
      "legal rights", "this is urgent", "any support?", "Support",
      "wellness", "main menu", "hello" }

\* health advice: messages that name one topic, several topics, or none
HealthMessages ==
    { "health advice", "mental health and fitness", "PrEP and exercise",
      "exercise with my doctor", "my GP and alcohol", "alcohol is fun",
      "make me laugh", "I am depressed about my fitness", "tell me more",
      "wellness", "main menu" }

\* problem solving entered, described, left and entered again
DescriptionMessages ==
    { "I have a problem", "my rent went up", "tell me more", "Inversion",
      "circle of control, not inversion",
      "Inversion, I feel hopeless and alone", "main menu" }

\* conversations that are stored and read back
ConversationMessages ==
    { "hello", "need housing", "wellness", "I want to END MY LIFE" }

\* turns in flight together: a script entered and answered, a resource
\* search that finds rows, and one that finds none in a message that also
\* asks for the main menu
InFlightMessages ==
    { "wellness", "Support", "support, main menu", "I want to END MY LIFE" }

\* the trigger of each script, a message about community resources, and
\* messages that start nothing
ServiceMessages ==
    { "health advice", "wellness", "I have a problem", "journal",
      "community events", "hello", "main menu" }

AllMessages ==
    Messages \cup DialogueMessages \cup WellnessMessages \cup JournalingMessages
        \cup ProblemMessages \cup TriggerMessages \cup ResourceMessages
        \cup ModelMessages \cup HealthMessages \cup DescriptionMessages
        \cup ConversationMessages \cup InFlightMessages \cup ServiceMessages

(***************************************************************************)
(* JavaScript values and string primitives                                 *)
(***************************************************************************)
Undefined == "undefined"
Null == "null"

(***************************************************************************)
(* Rows of ivor_resources the specifications store                         *)
(***************************************************************************)
resourceRow(id, title, description, content, phone, keywords, category, tags, is_active, priority) ==
    [id |-> id, title |-> title, description |-> description, content |-> content,
     website_url |-> Null, phone |-> phone, email |-> Null, keywords |-> keywords,
     category |-> category, tags |-> tags, is_active |-> is_active,
     priority |-> priority]

\* rows after backend/migrations/002_seed_ivor_knowledge_base.sql
StonewallHousing(id, is_active, priority) ==
    resourceRow(id, "Stonewall Housing", "Specialist LGBTQ+ housing support",
                "supported accommodation and advice on housing rights",
                Null, {"housing", "accommodation"}, "Housing",
                <<"LGBTQ+", "Housing", "Emergency">>, is_active, priority)

Samaritans(id, is_active, priority) ==
    resourceRow(id, "Samaritans", "24/7 emotional support helpline",
                "confidential emotional support", "116 123",
                {"crisis", "support"}, "Mental Health",
                <<"24/7", "Crisis", "Free">>, is_active, priority)

StonewallLegalLine(id, is_active, priority) ==
    resourceRow(id, "Stonewall Legal Line", "LGBTQ+ legal advice service",
                "free legal advice and support", Null,
                {"legal", "rights"}, "Legal Aid", <<"Legal", "Rights">>,
                is_active, priority)

Priorities == {10, 20}

ResourceData ==
    {StonewallHousing(0, a, p) : a \in BOOLEAN, p \in Priorities}
    \cup {Samaritans(0, TRUE, 10)}

SeededStore ==
    {StonewallHousing(1, TRUE, 10), StonewallHousing(2, FALSE, 20),
     Samaritans(3, TRUE, 10), StonewallLegalLine(4, TRUE, 20)}

\* the texts the store holds in its searched columns
StoredTexts ==
    UNION {{r.title, r.description, r.content} : r \in SeededStore \cup ResourceData}

UPPER == "ABCDEFGHIJKLMNOPQRSTUVWXYZ"
LOWER == "abcdefghijklmnopqrstuvwxyz"

LowerChar(c) ==
    IF \E i \in 1..Len(UPPER) : SubSeq(UPPER, i, i) = c
    THEN LET i == CHOOSE j \in 1..Len(UPPER) : SubSeq(UPPER, j, j) = c
         IN  SubSeq(LOWER, i, i)
    ELSE c

RECURSIVE lowerCase(_)
lowerCase(s) ==
    IF Len(s) <= 1 THEN LowerChar(s)
    ELSE LET h == Len(s) \div 2
         IN  lowerCase(SubSeq(s, 1, h)) \o lowerCase(SubSeq(s, h + 1, Len(s)))

\* s has k as a substring
scan(s, k) ==
    \E i \in 1..(Len(s) - Len(k) + 1) : SubSeq(s, i, i + Len(k) - 1) = k

(***************************************************************************)
(* The two string primitives the handlers call on every turn are computed  *)
(* once for the texts the specifications send and the keywords the source  *)
(* tests for; any other argument is computed on the spot.                  *)
(***************************************************************************)
LowerCaseTable == [s \in AllMessages \cup StoredTexts |-> lowerCase(s)]

\* String.prototype.toLowerCase
toLowerCase(s) ==
    IF s \in DOMAIN LowerCaseTable THEN LowerCaseTable[s] ELSE lowerCase(s)

Keywords ==
    {"main menu", "services", "start over", "complex", "complicated",
      "overwhelm", "goal", "outcome", "result", "choice", "option",
      "decision", "stress", "worry", "control", "consequence", "impact",
      "future", "ready", "morning", "evening", "mental health",
      "depression", "anxiety", "sexual health", "sti", "hiv", "prep",
      "physical health", "fitness", "exercise", "healthcare", "doctor",
      "gp", "medical", "substance", "alcohol", "drugs", "chemsex", "joy",
      "humor", "entertainment", "fun", "laugh", "community", "events",
      "meetup", "work", "job", "career", "crisis", "emergency", "urgent",
      "health advice", "health guidance", "wellness", "habit", "problem",
      "challenge", "stuck", "solve", "journal", "writing", "reflection",
      "ritual", "service", "help with", "coaching", "therapy",
      "counseling", "housing", "accommodation", "homeless", "legal",
      "discrimination", "rights", "help", "support", "resource", "suicide",
      "kill myself", "end my life", "want to die", "better off dead",
      "overdose", "self harm", "cut myself", "hurt myself",
      "immediate danger", "urgent help", "depressed", "hopeless",
      "can't cope", "overwhelmed", "breaking down", "panic attack",
      "anxiety attack", "mental breakdown", "desperate", "isolated",
      "alone", "nobody cares", "worthless", "stressed", "worried",
      "anxious", "sad", "upset", "struggling", "difficult time",
      "hard to cope", "need support", "feeling down" }

IncludesTable ==
    [s \in {LowerCaseTable[m] : m \in AllMessages} |-> {k \in Keywords : scan(s, k)}]

\* String.prototype.includes
includes(s, k) ==
    IF s \in DOMAIN IncludesTable /\ k \in Keywords
    THEN k \in IncludesTable[s]
    ELSE scan(s, k)

\* String.prototype.substring(0, n)
substring0(s, n) == SubSeq(s, 1, IF Len(s) < n THEN Len(s) ELSE n)

\* String.prototype.replace(a, b) with a string pattern: first occurrence only
replace(s, a, b) ==
    IF includes(s, a)
    THEN LET i == CHOOSE j \in 1..(Len(s) - Len(a) + 1) :
                     /\ SubSeq(s, j, j + Len(a) - 1) = a
                     /\ \A h \in 1..(j - 1) : SubSeq(s, h, h + Len(a) - 1) # a
         IN  SubSeq(s, 1, i - 1) \o b \o SubSeq(s, i + Len(a), Len(s))
    ELSE s

\* Array.prototype.filter over an array of keywords
RECURSIVE filterIncluded(_, _)
filterIncluded(keywords, text) ==
    IF keywords = <<>> THEN <<>>
    ELSE (IF includes(text, Head(keywords)) THEN <<Head(keywords)>> ELSE <<>>)
         \o filterIncluded(Tail(keywords), text)

\* object with string keys: {} , obj[k] = v , k in obj
EmptyObject == [k \in {} |-> Undefined]
Put(obj, k, v) == [y \in DOMAIN obj \cup {k} |-> IF y = k THEN v ELSE obj[y]]
Has(obj, k) == k \in DOMAIN obj

\* a reply text: the template that produced it and the interpolated values
Text(t) == [t |-> t, args |-> <<>>]
Template(t, args) == [t |-> t, args |-> args]

(***************************************************************************)
(* Distress classifier, server.js:261-369                                  *)
(***************************************************************************)
criticalKeywords ==
    << "suicide", "kill myself", "end my life", "want to die", "better off dead",
       "overdose", "self harm", "cut myself", "hurt myself",
       "emergency", "crisis", "immediate danger", "urgent help" >>

highKeywords ==
    << "depressed", "hopeless", "can't cope", "overwhelmed", "breaking down",
       "panic attack", "anxiety attack", "mental breakdown", "desperate",
       "isolated", "alone", "nobody cares", "worthless" >>

mediumKeywords ==
    << "stressed", "worried", "anxious", "sad", "upset", "struggling",
       "difficult time", "hard to cope", "need support", "feeling down" >>

\* Faulty variant for C16: one high keyword alone is classified high.
detectDistressLevelOneHigh(message) ==
    LET lowerMessage == toLowerCase(message)
        foundCritical == filterIncluded(criticalKeywords, lowerMessage)
        foundHigh == filterIncluded(highKeywords, lowerMessage)
        foundMedium == filterIncluded(mediumKeywords, lowerMessage)
    IN  IF Len(foundCritical) > 0
        THEN [level |-> "critical", indicators |-> foundCritical,
              immediateResponse |-> TRUE, followUpRequired |-> TRUE]
        ELSE IF Len(foundHigh) >= 1
        THEN [level |-> "high", indicators |-> foundHigh \o foundMedium,
              immediateResponse |-> TRUE, followUpRequired |-> TRUE]
        ELSE IF Len(foundMedium) >= 2
        THEN [level |-> "medium", indicators |-> foundHigh \o foundMedium,
              immediateResponse |-> FALSE, followUpRequired |-> TRUE]
        ELSE IF Len(foundMedium) >= 1
        THEN [level |-> "low", indicators |-> foundMedium,
              immediateResponse |-> FALSE, followUpRequired |-> FALSE]
        ELSE [level |-> "low", indicators |-> <<>>,
              immediateResponse |-> FALSE, followUpRequired |-> FALSE]

\* Faulty variant for C30: a critical keyword makes the level critical only
\* when no high keyword is found beside it.
detectDistressLevelCriticalAlone(message) ==
    LET lowerMessage == toLowerCase(message)
        foundCritical == filterIncluded(criticalKeywords, lowerMessage)
        foundHigh == filterIncluded(highKeywords, lowerMessage)
        foundMedium == filterIncluded(mediumKeywords, lowerMessage)
    IN  IF Len(foundCritical) > 0 /\ Len(foundHigh) = 0
        THEN [level |-> "critical", indicators |-> foundCritical,
              immediateResponse |-> TRUE, followUpRequired |-> TRUE]
        ELSE IF Len(foundHigh) >= 2 \/ (Len(foundHigh) >= 1 /\ Len(foundMedium) >= 1)
        THEN [level |-> "high", indicators |-> foundHigh \o foundMedium,
              immediateResponse |-> TRUE, followUpRequired |-> TRUE]
        ELSE IF Len(foundHigh) >= 1 \/ Len(foundMedium) >= 2
        THEN [level |-> "medium", indicators |-> foundHigh \o foundMedium,
              immediateResponse |-> FALSE, followUpRequired |-> TRUE]
        ELSE IF Len(foundMedium) >= 1
        THEN [level |-> "low", indicators |-> foundMedium,
              immediateResponse |-> FALSE, followUpRequired |-> FALSE]
        ELSE [level |-> "low", indicators |-> <<>>,
              immediateResponse |-> FALSE, followUpRequired |-> FALSE]

detectDistressLevel(message) ==
    LET lowerMessage == toLowerCase(message)
        foundCritical == filterIncluded(criticalKeywords, lowerMessage)
        foundHigh == filterIncluded(highKeywords, lowerMessage)
        foundMedium == filterIncluded(mediumKeywords, lowerMessage)
    IN  IF Len(foundCritical) > 0
        THEN [level |-> "critical", indicators |-> foundCritical,
              immediateResponse |-> TRUE, followUpRequired |-> TRUE]
        ELSE IF Len(foundHigh) >= 2 \/ (Len(foundHigh) >= 1 /\ Len(foundMedium) >= 1)
        THEN [level |-> "high", indicators |-> foundHigh \o foundMedium,
              immediateResponse |-> TRUE, followUpRequired |-> TRUE]
        ELSE IF Len(foundHigh) >= 1 \/ Len(foundMedium) >= 2
        THEN [level |-> "medium", indicators |-> foundHigh \o foundMedium,
              immediateResponse |-> FALSE, followUpRequired |-> TRUE]
        ELSE IF Len(foundMedium) >= 1
        THEN [level |-> "low", indicators |-> foundMedium,
              immediateResponse |-> FALSE, followUpRequired |-> FALSE]
        ELSE [level |-> "low", indicators |-> <<>>,
              immediateResponse |-> FALSE, followUpRequired |-> FALSE]

EmergencyCritical == Text("IMMEDIATE EMERGENCY SUPPORT")
EmergencyHigh == Text("PRIORITY SUPPORT AVAILABLE")
EmergencyMedium == Text("CARING SUPPORT")
EmptyText == Text("")

\* Faulty variant for C2: every level gets the critical template.
generateEmergencyResponseAlwaysCritical(distressSignal) == EmergencyCritical

generateEmergencyResponse(distressSignal) ==
    IF distressSignal.level = "critical" THEN EmergencyCritical
    ELSE IF distressSignal.level = "high" THEN EmergencyHigh
    ELSE IF distressSignal.level = "medium" THEN EmergencyMedium
    ELSE EmptyText

(***************************************************************************)
(* Static dialogue data, server.js:533-613                                 *)
(***************************************************************************)
WELLNESS_SECTIONS ==
    << [id |-> "persona-snapshot", name |-> "Personal Snapshot",
        description |-> "Understanding your current identity and life situation",
        assessmentPrompt |-> "Tell me about yourself - your background, current situation, and what you value most in life. This helps me understand your unique perspective as we build your wellness plan."],
       [id |-> "wellness-domains", name |-> "Wellness Domains Inventory",
        description |-> "Mapping your wellness across key life areas",
        assessmentPrompt |-> "Let's assess your current wellness across different life domains. Rate each area 1-10 and share what's working well or challenging: Physical Health, Mental Health, Relationships, Career/Work, Spirituality/Purpose, Recreation/Fun."],
       [id |-> "current-state-audit", name |-> "Current State Audit",
        description |-> "Honest assessment of where you are now",
        assessmentPrompt |-> "Let's take an honest look at your current habits and patterns. What daily/weekly habits support your wellbeing? What habits might be holding you back? What patterns do you notice in your behavior?"],
       [id |-> "aspirational-vision", name |-> "Aspirational Vision",
        description |-> "Creating a compelling future vision",
        assessmentPrompt |-> "Imagine your ideal life 1 year from now. What would it look like? How would you feel day-to-day? What would be different about your relationships, work, health, and overall experience?"],
       [id |-> "gap-analysis", name |-> "Gap Analysis",
        description |-> "Identifying the bridge between current and desired state",
        assessmentPrompt |-> "Looking at where you are now versus your ideal vision, what are the main gaps? What would need to change? What obstacles or challenges do you anticipate?"],
       [id |-> "motivation-mapping", name |-> "Motivation Mapping",
        description |-> "Understanding your deepest drivers for change",
        assessmentPrompt |-> "Let's explore your motivation. Why is creating these changes important to you? What might happen if you continue on your current path? What could happen if you make the changes you want?"] >>

MENTAL_MODELS ==
    << [id |-> "first-principles", name |-> "First Principles Thinking",
        description |-> "Break down complex problems to fundamental truths",
        application |-> "Strip away assumptions and build understanding from the ground up",
        questions |-> << "What do we know to be absolutely true about this situation?",
                         "What assumptions am I making?",
                         "If I had to explain this to someone with no context, what are the basic facts?" >>],
       [id |-> "inversion", name |-> "Inversion",
        description |-> "Think backwards from the desired outcome",
        application |-> "Consider what you want to avoid, then work backwards",
        questions |-> << "What would failure look like in this situation?",
                         "What should I absolutely avoid doing?",
                         "If I wanted the opposite outcome, what would I do?" >>],
       [id |-> "occams-razor", name |-> "Occam's Razor",
        description |-> "The simplest explanation is usually correct",
        application |-> "Look for the most straightforward solution first",
        questions |-> << "What's the simplest explanation for this problem?",
                         "Am I overcomplicating this?",
                         "What would the most direct solution be?" >>],
       [id |-> "circle-of-control", name |-> "Circle of Control",
        description |-> "Focus energy on what you can actually influence",
        application |-> "Separate controllable factors from uncontrollable ones",
        questions |-> << "What aspects of this situation can I directly control?",
                         "What is completely outside my influence?",
                         "Where should I focus my energy?" >>],
       [id |-> "second-order-thinking", name |-> "Second-Order Thinking",
        description |-> "Consider the consequences of consequences",
        application |-> "Think beyond immediate effects to long-term implications",
        questions |-> << "If I do X, what happens next?",
                         "And then what happens after that?",
                         "What are the unintended consequences?" >>] >>

\* Array.prototype.findIndex, 1-based, given the set of the indices whose
\* element satisfies the callback; 0 when there is none
findIndex(satisfying) ==
    IF satisfying = {} THEN 0
    ELSE CHOOSE i \in satisfying : \A j \in satisfying : i <= j

\* Array.prototype.includes
arrayIncludes(array, v) == \E i \in 1..Len(array) : array[i] = v

\* Array.prototype.join
RECURSIVE join(_, _)
join(array, sep) ==
    IF array = <<>> THEN ""
    ELSE IF Len(array) = 1 THEN array[1]
    ELSE array[1] \o sep \o join(Tail(array), sep)

(***************************************************************************)
(* Menus, server.js:750-806                                                *)
(***************************************************************************)
generateServiceSelectionResponse == Text("HEY BEAUTIFUL! I'M I.V.O.R.")
generateWelcomeResponse == Text("WELCOME TO I.V.O.R., GORGEOUS!")

\* the sentinel a script handler returns to leave the dialogue
NavigateToMainMenu == Text("navigate-to-main-menu")

\* lowerMessage.includes('main menu') || ...('services') || ...('start over')
isNavigation(lowerMessage) ==
    \/ includes(lowerMessage, "main menu")
    \/ includes(lowerMessage, "services")
    \/ includes(lowerMessage, "start over")

(***************************************************************************)
(* Wellness coaching, server.js:853-938                                    *)
(***************************************************************************)
startWellnessCoaching ==
    Template("Welcome to Wellness & Habit Coaching",
             << WELLNESS_SECTIONS[1].assessmentPrompt >>)

\* Faulty variant for C20: the summary is replaced by the opening text.
generateWellnessSummaryRestarting(session) == startWellnessCoaching

generateWellnessSummary(session) == Text("Wellness Assessment Complete!")

\* Faulty variant for C5: the section is pushed without the includes() test of
\* server.js:891.
handleWellnessCoachingPushing(message, session) ==
    LET lowerMessage == toLowerCase(message)
        progress == session.progress
        currentSectionId ==
            IF Has(progress, "currentSection") THEN progress.currentSection
            ELSE Undefined
        currentIndex == findIndex({i \in DOMAIN WELLNESS_SECTIONS :
                                        WELLNESS_SECTIONS[i].id = currentSectionId})
    IN  IF isNavigation(lowerMessage)
        THEN [result |-> NavigateToMainMenu, session |-> session]
        ELSE IF currentIndex = 0
        THEN [result |-> generateWellnessSummary(session), session |-> session]
        ELSE
        LET currentSection == WELLNESS_SECTIONS[currentIndex]
            p1 == IF ~Has(progress, "responses")
                  THEN Put(progress, "responses", EmptyObject) ELSE progress
            p2 == Put(p1, "responses", Put(p1.responses, currentSectionId, message))
            p3 == Put(p2, "completedSections",
                      Append(p2.completedSections, currentSectionId))
        IN  IF currentIndex < Len(WELLNESS_SECTIONS)
            THEN LET nextSection == WELLNESS_SECTIONS[currentIndex + 1]
                     p4 == Put(p3, "currentSection", nextSection.id)
                 IN  [result |->
                        Template("Section Complete / Next",
                                 << currentSection.name, nextSection.name,
                                    nextSection.description,
                                    nextSection.assessmentPrompt,
                                    ToString(Len(p4.completedSections)),
                                    ToString(Len(WELLNESS_SECTIONS)) >>),
                      session |-> [session EXCEPT !.progress = p4]]
            ELSE LET s3 == [session EXCEPT !.progress = p3]
                 IN  [result |-> generateWellnessSummary(s3), session |-> s3]

\* Faulty variant for C23: the answer is stored under the section the turn
\* moves on to.
handleWellnessCoachingStoringAhead(message, session) ==
    LET lowerMessage == toLowerCase(message)
        progress == session.progress
        currentSectionId ==
            IF Has(progress, "currentSection") THEN progress.currentSection
            ELSE Undefined
        currentIndex == findIndex({i \in DOMAIN WELLNESS_SECTIONS :
                                        WELLNESS_SECTIONS[i].id = currentSectionId})
    IN  IF isNavigation(lowerMessage)
        THEN [result |-> NavigateToMainMenu, session |-> session]
        ELSE IF currentIndex = 0
        THEN [result |-> generateWellnessSummary(session), session |-> session]
        ELSE
        LET currentSection == WELLNESS_SECTIONS[currentIndex]
            storedUnder ==
                IF currentIndex < Len(WELLNESS_SECTIONS)
                THEN WELLNESS_SECTIONS[currentIndex + 1].id ELSE currentSectionId
            p1 == IF ~Has(progress, "responses")
                  THEN Put(progress, "responses", EmptyObject) ELSE progress
            p2 == Put(p1, "responses", Put(p1.responses, storedUnder, message))
            p3 == IF ~arrayIncludes(p2.completedSections, currentSectionId)
                  THEN Put(p2, "completedSections",
                           Append(p2.completedSections, currentSectionId))
                  ELSE p2
        IN  IF currentIndex < Len(WELLNESS_SECTIONS)
            THEN LET nextSection == WELLNESS_SECTIONS[currentIndex + 1]
                     p4 == Put(p3, "currentSection", nextSection.id)
                 IN  [result |->
                        Template("Section Complete / Next",
                                 << currentSection.name, nextSection.name,
                                    nextSection.description,
                                    nextSection.assessmentPrompt,
                                    ToString(Len(p4.completedSections)),
                                    ToString(Len(WELLNESS_SECTIONS)) >>),
                      session |-> [session EXCEPT !.progress = p4]]
            ELSE LET s3 == [session EXCEPT !.progress = p3]
                 IN  [result |-> generateWellnessSummary(s3), session |-> s3]

\* Faulty variant for C24: once every section is completed, an answer is no
\* longer stored.
handleWellnessCoachingFrozen(message, session) ==
    LET lowerMessage == toLowerCase(message)
        progress == session.progress
        currentSectionId ==
            IF Has(progress, "currentSection") THEN progress.currentSection
            ELSE Undefined
        currentIndex == findIndex({i \in DOMAIN WELLNESS_SECTIONS :
                                        WELLNESS_SECTIONS[i].id = currentSectionId})
    IN  IF isNavigation(lowerMessage)
        THEN [result |-> NavigateToMainMenu, session |-> session]
        ELSE IF currentIndex = 0
                \/ Len(progress.completedSections) = Len(WELLNESS_SECTIONS)
        THEN [result |-> generateWellnessSummary(session), session |-> session]
        ELSE
        LET currentSection == WELLNESS_SECTIONS[currentIndex]
            p1 == IF ~Has(progress, "responses")
                  THEN Put(progress, "responses", EmptyObject) ELSE progress
            p2 == Put(p1, "responses", Put(p1.responses, currentSectionId, message))
            p3 == IF ~arrayIncludes(p2.completedSections, currentSectionId)
                  THEN Put(p2, "completedSections",
                           Append(p2.completedSections, currentSectionId))
                  ELSE p2
        IN  IF currentIndex < Len(WELLNESS_SECTIONS)
            THEN LET nextSection == WELLNESS_SECTIONS[currentIndex + 1]
                     p4 == Put(p3, "currentSection", nextSection.id)
                 IN  [result |->
                        Template("Section Complete / Next",
                                 << currentSection.name, nextSection.name,
                                    nextSection.description,
                                    nextSection.assessmentPrompt,
                                    ToString(Len(p4.completedSections)),
                                    ToString(Len(WELLNESS_SECTIONS)) >>),
                      session |-> [session EXCEPT !.progress = p4]]
            ELSE LET s3 == [session EXCEPT !.progress = p3]
                 IN  [result |-> generateWellnessSummary(s3), session |-> s3]

handleWellnessCoaching(message, session) ==
    LET lowerMessage == toLowerCase(message)
        progress == session.progress
        currentSectionId ==
            IF Has(progress, "currentSection") THEN progress.currentSection
            ELSE Undefined
        currentIndex == findIndex({i \in DOMAIN WELLNESS_SECTIONS :
                                        WELLNESS_SECTIONS[i].id = currentSectionId})
    IN  IF isNavigation(lowerMessage)
        THEN [result |-> NavigateToMainMenu, session |-> session]
        ELSE IF currentIndex = 0
        THEN [result |-> generateWellnessSummary(session), session |-> session]
        ELSE
        LET currentSection == WELLNESS_SECTIONS[currentIndex]
            p1 == IF ~Has(progress, "responses")
                  THEN Put(progress, "responses", EmptyObject) ELSE progress
            p2 == Put(p1, "responses", Put(p1.responses, currentSectionId, message))
            p3 == IF ~arrayIncludes(p2.completedSections, currentSectionId)
                  THEN Put(p2, "completedSections",
                           Append(p2.completedSections, currentSectionId))
                  ELSE p2
        IN  IF currentIndex < Len(WELLNESS_SECTIONS)
            THEN LET nextSection == WELLNESS_SECTIONS[currentIndex + 1]
                     p4 == Put(p3, "currentSection", nextSection.id)
                 IN  [result |->
                        Template("Section Complete / Next",
                                 << currentSection.name, nextSection.name,
                                    nextSection.description,
                                    nextSection.assessmentPrompt,
                                    ToString(Len(p4.completedSections)),
                                    ToString(Len(WELLNESS_SECTIONS)) >>),
                      session |-> [session EXCEPT !.progress = p4]]
            ELSE LET s3 == [session EXCEPT !.progress = p3]
                 IN  [result |-> generateWellnessSummary(s3), session |-> s3]

(***************************************************************************)
(* Strategic problem solving, server.js:940-1030                           *)
(***************************************************************************)
startProblemSolving == Text("Strategic Problem Solving")

selectMentalModel(problemDescription) ==
    LET problem == toLowerCase(problemDescription)
        rec(cond, text) == IF cond THEN <<text>> ELSE <<>>
        recommendations ==
            rec(includes(problem, "complex") \/ includes(problem, "complicated")
                    \/ includes(problem, "overwhelm"),
                "**First Principles** - Break this down to basic components")
            \o rec(includes(problem, "goal") \/ includes(problem, "outcome")
                    \/ includes(problem, "result"),
                "**Inversion** - Work backwards from your desired outcome")
            \o rec(includes(problem, "choice") \/ includes(problem, "option")
                    \/ includes(problem, "decision"),
                "**Occam's Razor** - Find the simplest solution")
            \o rec(includes(problem, "stress") \/ includes(problem, "worry")
                    \/ includes(problem, "control"),
                "**Circle of Control** - Focus on what you can influence")
            \o rec(includes(problem, "consequence") \/ includes(problem, "impact")
                    \/ includes(problem, "future"),
                "**Second-Order Thinking** - Consider long-term effects")
        modelList ==
            join([i \in 1..Len(MENTAL_MODELS) |->
                    "**" \o MENTAL_MODELS[i].name \o "** - "
                         \o MENTAL_MODELS[i].description], "\n")
    IN  Template("Problem Captured",
                 << substring0(problemDescription, 100)
                        \o (IF Len(problemDescription) > 100 THEN "..." ELSE ""),
                    IF Len(recommendations) > 0 THEN join(recommendations, "\n")
                    ELSE "All models could be helpful for this challenge.",
                    modelList >>)

applyMentalModel(model, problemDescription) ==
    Template("Applying mental model",
             << model.name,
                substring0(problemDescription, 150)
                    \o (IF Len(problemDescription) > 150 THEN "..." ELSE ""),
                model.name,
                model.application,
                join([i \in 1..Len(model.questions) |->
                        ToString(i) \o ". " \o model.questions[i]], "\n\n"),
                model.questions[1] >>)

autoSelectMentalModel(userResponse, problemDescription) ==
    LET firstPrinciples ==
            MENTAL_MODELS[findIndex({i \in DOMAIN MENTAL_MODELS :
                                        MENTAL_MODELS[i].id = "first-principles"})]
    IN  applyMentalModel(firstPrinciples, problemDescription)

\* Faulty variant for C8: the message is matched against the hyphenated id
\* only.
modelMatchesIdOnly(model, lowerMessage) == includes(lowerMessage, model.id)

\* the predicate of MENTAL_MODELS.find at server.js:972-973
modelMatches(model, lowerMessage) ==
    \/ includes(lowerMessage, replace(model.id, "-", " "))
    \/ includes(lowerMessage, toLowerCase(model.name))

\* Faulty variant for C22: a message that names no model replaces the
\* captured description.
handleProblemSolvingRecapturing(message, session) ==
    LET lowerMessage == toLowerCase(message)
        progress == session.progress
    IN  IF isNavigation(lowerMessage)
        THEN [result |-> NavigateToMainMenu, session |-> session]
        ELSE IF ~Has(progress, "problemDescription") \/ progress.problemDescription = ""
        THEN [result |-> selectMentalModel(message),
              session |-> [session EXCEPT
                             !.progress = Put(progress, "problemDescription", message)]]
        ELSE
        LET selected == findIndex({i \in DOMAIN MENTAL_MODELS :
                                     modelMatches(MENTAL_MODELS[i], lowerMessage)})
        IN  IF selected # 0
            THEN [result |-> applyMentalModel(MENTAL_MODELS[selected],
                                              progress.problemDescription),
                  session |-> [session EXCEPT
                                 !.progress = Put(progress, "selectedModel",
                                                  MENTAL_MODELS[selected].id)]]
            ELSE [result |-> autoSelectMentalModel(message, message),
                  session |-> [session EXCEPT
                                 !.progress = Put(progress, "problemDescription", message)]]

\* Faulty variant for C25: the model applied by default is recorded as the
\* selected one.
handleProblemSolvingRecordingDefault(message, session) ==
    LET lowerMessage == toLowerCase(message)
        progress == session.progress
    IN  IF isNavigation(lowerMessage)
        THEN [result |-> NavigateToMainMenu, session |-> session]
        ELSE IF ~Has(progress, "problemDescription") \/ progress.problemDescription = ""
        THEN [result |-> selectMentalModel(message),
              session |-> [session EXCEPT
                             !.progress = Put(progress, "problemDescription", message)]]
        ELSE
        LET selected == findIndex({i \in DOMAIN MENTAL_MODELS :
                                     modelMatches(MENTAL_MODELS[i], lowerMessage)})
        IN  IF selected # 0
            THEN [result |-> applyMentalModel(MENTAL_MODELS[selected],
                                              progress.problemDescription),
                  session |-> [session EXCEPT
                                 !.progress = Put(progress, "selectedModel",
                                                  MENTAL_MODELS[selected].id)]]
            ELSE [result |-> autoSelectMentalModel(message, progress.problemDescription),
                  session |-> [session EXCEPT
                                 !.progress = Put(progress, "selectedModel",
                                                  "first-principles")]]

handleProblemSolving(message, session) ==
    LET lowerMessage == toLowerCase(message)
        progress == session.progress
    IN  IF isNavigation(lowerMessage)
        THEN [result |-> NavigateToMainMenu, session |-> session]
        ELSE IF ~Has(progress, "problemDescription") \/ progress.problemDescription = ""
        THEN [result |-> selectMentalModel(message),
              session |-> [session EXCEPT
                             !.progress = Put(progress, "problemDescription", message)]]
        ELSE
        LET selected == findIndex({i \in DOMAIN MENTAL_MODELS :
                                     modelMatches(MENTAL_MODELS[i], lowerMessage)})
        IN  IF selected # 0
            THEN [result |-> applyMentalModel(MENTAL_MODELS[selected],
                                              progress.problemDescription),
                  session |-> [session EXCEPT
                                 !.progress = Put(progress, "selectedModel",
                                                  MENTAL_MODELS[selected].id)]]
            ELSE [result |-> autoSelectMentalModel(message, progress.problemDescription),
                  session |-> session]

(***************************************************************************)
(* Transformational journaling, server.js:1032-1368                        *)
(***************************************************************************)
startTransformationalJournaling == Text("Welcome to Transformational Journaling")
startMorningRitual == Text("Morning Transformational Ritual")
startEveningRitual == Text("Evening Transformational Ritual")
RitualChoicePrompt == Text("I need to know if you're starting a morning or evening journaling ritual")
BreathworkInstructions == Text("Take your time with the breathwork")

\* `${entries.key}` : a missing entry is interpolated as "undefined"
entry(entries, key) == IF Has(entries, key) THEN entries[key] ELSE Undefined

generateMorningSummary(session) ==
    LET entries == session.progress.morningEntries
    IN  Template("Morning Ritual Complete!",
                 << entry(entries, "vision"), entry(entries, "affirmations"),
                    entry(entries, "gratitude"), entry(entries, "visualization") >>)

generateEveningSummary(session) ==
    LET entries == session.progress.eveningEntries
    IN  Template("Evening Ritual Complete!",
                 << entry(entries, "wins"), entry(entries, "lesson"),
                    entry(entries, "growth"), entry(entries, "impactTask"),
                    entry(entries, "leverageTask"), entry(entries, "realityTask"),
                    entry(entries, "starterActions") >>)

handleMorningRitual(message, session) ==
    LET lowerMessage == toLowerCase(message)
        currentStep == IF Has(session.progress, "morningStep")
                       THEN session.progress.morningStep ELSE Undefined
        p0 == IF ~Has(session.progress, "morningEntries")
              THEN Put(session.progress, "morningEntries", EmptyObject)
              ELSE session.progress
        store(key, nextStep) ==
            Put(Put(p0, "morningEntries", Put(p0.morningEntries, key, message)),
                "morningStep", nextStep)
        out(reply, p) == [result |-> reply, session |-> [session EXCEPT !.progress = p]]
    IN  CASE currentStep = "breathwork" ->
                IF includes(lowerMessage, "ready")
                THEN out(Text("Vision of the Day"), Put(p0, "morningStep", "vision"))
                ELSE out(BreathworkInstructions, p0)
          [] currentStep = "vision" ->
                out(Text("Reframe Resistance"), store("vision", "reframe"))
          [] currentStep = "reframe" ->
                out(Template("Reframed as Opportunity", <<message>>),
                    store("barrier", "affirmations"))
          [] currentStep = "affirmations" ->
                out(Text("Gratitude with Purpose"), store("affirmations", "gratitude"))
          [] currentStep = "gratitude" ->
                out(Text("Visualize Success"), store("gratitude", "visualization"))
          [] currentStep = "visualization" ->
                LET p == Put(p0, "morningEntries",
                             Put(p0.morningEntries, "visualization", message))
                    s == [session EXCEPT !.progress = p]
                IN  [result |-> generateMorningSummary(s), session |-> s]
          [] OTHER -> out(startMorningRitual, p0)

handleEveningRitual(message, session) ==
    LET currentStep == IF Has(session.progress, "eveningStep")
                       THEN session.progress.eveningStep ELSE Undefined
        p0 == IF ~Has(session.progress, "eveningEntries")
              THEN Put(session.progress, "eveningEntries", EmptyObject)
              ELSE session.progress
        store(key, nextStep) ==
            Put(Put(p0, "eveningEntries", Put(p0.eveningEntries, key, message)),
                "eveningStep", nextStep)
        out(reply, p) == [result |-> reply, session |-> [session EXCEPT !.progress = p]]
    IN  CASE currentStep = "wins" ->
                out(Text("Extract the Lesson"), store("wins", "lesson"))
          [] currentStep = "lesson" ->
                out(Text("Recognize Your Growth"), store("lesson", "growth"))
          [] currentStep = "growth" ->
                out(Text("Tomorrow's Big Three: Impact Task"),
                    store("growth", "tomorrow-impact"))
          [] currentStep = "tomorrow-impact" ->
                out(Text("Tomorrow's Big Three: Leverage Task"),
                    store("impactTask", "tomorrow-leverage"))
          [] currentStep = "tomorrow-leverage" ->
                out(Text("Tomorrow's Big Three: Reality Check Task"),
                    store("leverageTask", "tomorrow-reality"))
          [] currentStep = "tomorrow-reality" ->
                LET p == store("realityTask", "starter-actions")
                IN  out(Template("Starter Actions",
                                 << entry(p.eveningEntries, "impactTask"),
                                    entry(p.eveningEntries, "leverageTask"),
                                    entry(p.eveningEntries, "realityTask") >>), p)
          [] currentStep = "starter-actions" ->
                LET p == Put(p0, "eveningEntries",
                             Put(p0.eveningEntries, "starterActions", message))
                    s == [session EXCEPT !.progress = p]
                IN  [result |-> generateEveningSummary(s), session |-> s]
          [] OTHER -> out(startEveningRitual, p0)

\* !session.progress.currentRitual
noCurrentRitual(progress) ==
    \/ ~Has(progress, "currentRitual")
    \/ progress.currentRitual \in {Null, Undefined, ""}

handleTransformationalJournaling(message, session) ==
    LET lowerMessage == toLowerCase(message)
        progress == session.progress
    IN  IF isNavigation(lowerMessage)
        THEN [result |-> NavigateToMainMenu, session |-> session]
        ELSE IF session.currentStep = "time-identification" \/ noCurrentRitual(progress)
        THEN IF includes(lowerMessage, "morning")
             THEN [result |-> startMorningRitual,
                   session |-> [session EXCEPT !.progress =
                        Put(Put(progress, "currentRitual", "morning"),
                            "morningStep", "breathwork")]]
             ELSE IF includes(lowerMessage, "evening")
             THEN [result |-> startEveningRitual,
                   session |-> [session EXCEPT !.progress =
                        Put(Put(progress, "currentRitual", "evening"),
                            "eveningStep", "wins")]]
             ELSE [result |-> RitualChoicePrompt, session |-> session]
        ELSE IF progress.currentRitual = "morning"
        THEN handleMorningRitual(message, session)
        ELSE IF progress.currentRitual = "evening"
        THEN handleEveningRitual(message, session)
        ELSE [result |-> startTransformationalJournaling, session |-> session]

(***************************************************************************)
(* Health advice, server.js:1370-1397                                      *)
(***************************************************************************)
generateHealthTopicsMenu == Text("Health & Wellbeing Guidance")

\* Faulty variant for C21: the physical health topic is tested before the
\* sexual health topic.
handleHealthAdvicePhysicalFirst(message, session) ==
    LET lowerMessage == toLowerCase(message)
        has(k) == includes(lowerMessage, k)
        reply ==
            IF isNavigation(lowerMessage) THEN NavigateToMainMenu
            ELSE IF has("mental health") \/ has("depression") \/ has("anxiety")
            THEN Text("generateMentalHealthAdvice")
            ELSE IF has("physical health") \/ has("fitness") \/ has("exercise")
            THEN Text("generatePhysicalHealthAdvice")
            ELSE IF has("sexual health") \/ has("sti") \/ has("hiv") \/ has("prep")
            THEN Text("generateSexualHealthAdvice")
            ELSE IF has("healthcare") \/ has("doctor") \/ has("gp") \/ has("medical")
            THEN Text("generateHealthcareNavigationAdvice")
            ELSE IF has("substance") \/ has("alcohol") \/ has("drugs") \/ has("chemsex")
            THEN Text("generateSubstanceHealthAdvice")
            ELSE IF has("joy") \/ has("humor") \/ has("entertainment") \/ has("fun")
                    \/ has("laugh")
            THEN Text("generateJoyAndWellnessAdvice")
            ELSE generateHealthTopicsMenu
    IN  [result |-> reply, session |-> session]

handleHealthAdvice(message, session) ==
    LET lowerMessage == toLowerCase(message)
        has(k) == includes(lowerMessage, k)
        reply ==
            IF isNavigation(lowerMessage) THEN NavigateToMainMenu
            ELSE IF has("mental health") \/ has("depression") \/ has("anxiety")
            THEN Text("generateMentalHealthAdvice")
            ELSE IF has("sexual health") \/ has("sti") \/ has("hiv") \/ has("prep")
            THEN Text("generateSexualHealthAdvice")
            ELSE IF has("physical health") \/ has("fitness") \/ has("exercise")
            THEN Text("generatePhysicalHealthAdvice")
            ELSE IF has("healthcare") \/ has("doctor") \/ has("gp") \/ has("medical")
            THEN Text("generateHealthcareNavigationAdvice")
            ELSE IF has("substance") \/ has("alcohol") \/ has("drugs") \/ has("chemsex")
            THEN Text("generateSubstanceHealthAdvice")
            ELSE IF has("joy") \/ has("humor") \/ has("entertainment") \/ has("fun")
                    \/ has("laugh")
            THEN Text("generateJoyAndWellnessAdvice")
            ELSE generateHealthTopicsMenu
    IN  [result |-> reply, session |-> session]

(***************************************************************************)
(* Community resources, server.js:1715-1756                                *)
(***************************************************************************)
generateCommunityResourceResponse(resourceType) ==
    IF resourceType = "mental-health" THEN Text("Mental Health & Therapy Resources")
    ELSE IF resourceType = "general" THEN Text("COMMUNITY RESOURCES AVAILABLE")
    ELSE generateServiceSelectionResponse

handleCommunityResources(message, session) ==
    [result |-> generateCommunityResourceResponse("general"), session |-> session]

(***************************************************************************)
(* Service dispatcher, server.js:808-851                                   *)
(***************************************************************************)
\* the four identical blocks: run the handler, and on the sentinel clear the
\* session and answer with the main menu
\* Faulty variant for C4: the script is left but its progress is kept.
afterHandlerKeepingProgress(r) ==
    IF r.result = NavigateToMainMenu
    THEN [result |-> generateServiceSelectionResponse,
          session |-> [r.session EXCEPT !.currentService = Undefined,
                                        !.currentStep = Undefined]]
    ELSE r

\* Faulty variant for C28: the script is left and its progress dropped, but
\* its step pointer is kept.
afterHandlerKeepingStep(r) ==
    IF r.result = NavigateToMainMenu
    THEN [result |-> generateServiceSelectionResponse,
          session |-> [r.session EXCEPT !.currentService = Undefined,
                                        !.progress = EmptyObject]]
    ELSE r

afterHandler(r) ==
    IF r.result = NavigateToMainMenu
    THEN [result |-> generateServiceSelectionResponse,
          session |-> [r.session EXCEPT !.currentService = Undefined,
                                        !.currentStep = Undefined,
                                        !.progress = EmptyObject]]
    ELSE r

handleServiceConversation(message, session) ==
    IF session.currentService = "wellness-coaching"
    THEN afterHandler(handleWellnessCoaching(message, session))
    ELSE IF session.currentService = "problem-solving"
    THEN afterHandler(handleProblemSolving(message, session))
    ELSE IF session.currentService = "transformational-journaling"
    THEN afterHandler(handleTransformationalJournaling(message, session))
    ELSE IF session.currentService = "health-advice"
    THEN afterHandler(handleHealthAdvice(message, session))
    ELSE handleCommunityResources(message, session)

(***************************************************************************)
(* Resource store adapter, knowledgeService.js:9-171                       *)
(*                                                                         *)
(* A row of ivor_resources is a record                                     *)
(*   [id, title, description, content, website_url, phone, email,          *)
(*    keywords, category, tags, is_active, priority]                       *)
(* with category the name of the joined ivor_categories row or Null, tags  *)
(* the names of the joined ivor_tags rows, and Null for an absent column.  *)
(* An awaited query resolves to {data, error}: either the store reports an *)
(* error, or data holds the selected rows; rows of equal priority come in  *)
(* any order.                                                              *)
(***************************************************************************)
Range(f) == {f[i] : i \in DOMAIN f}

\* the select(...) column list
selectColumns(row, tagNames) ==
    [id |-> row.id, title |-> row.title, description |-> row.description,
     content |-> row.content, website_url |-> row.website_url,
     phone |-> row.phone, email |-> row.email, priority |-> row.priority,
     ivor_categories |-> IF row.category = Null THEN EmptyObject
                         ELSE [name |-> row.category],
     ivor_resource_tags |-> tagNames]

\* .order('priority', { ascending: false }) : every ordering the store may use
orderByPriorityDesc(rows) ==
    {q \in [1..Cardinality(rows) -> rows] :
        /\ \A i, j \in DOMAIN q : i # j => q[i] # q[j]
        /\ \A i, j \in DOMAIN q : i < j => q[i].priority >= q[j].priority}

\* .limit(limit)
limitRows(q, limit) == SubSeq(q, 1, IF Len(q) < limit THEN Len(q) ELSE limit)

\* Faulty variant for C10: the query without .eq('is_active', true).
eqIsActiveDropped(rows) == rows

\* .eq('is_active', true)
eqIsActive(rows) == {r \in rows : r.is_active = TRUE}

\* ....order('priority', { ascending: false }).limit(limit), awaited
awaitQuery(selected, limit) ==
    {[data |-> <<>>, error |-> TRUE]}
    \cup {[data |-> limitRows(q, limit), error |-> FALSE] :
            q \in orderByPriorityDesc(selected)}

\* if (error) return []; return data || []
returned(completions) ==
    {[value |-> IF c.error THEN <<>> ELSE c.data, error |-> c.error] : c \in completions}

\* title.ilike.%q% , description.ilike.%q% , content.ilike.%q% , keywords.cs.{q}
searchMatches(row, query) ==
    LET q == toLowerCase(query)
    IN  \/ includes(toLowerCase(row.title), q)
        \/ includes(toLowerCase(row.description), q)
        \/ includes(toLowerCase(row.content), q)
        \/ query \in row.keywords

searchResources(table, query, limit) ==
    returned(awaitQuery(
        {selectColumns(r, r.tags) :
            r \in eqIsActive({x \in table : searchMatches(x, query)})},
        limit))

TagsIn(row, tags) == SelectSeq(row.tags, LAMBDA t : t \in tags)

selectByCategory(table, categoryName) ==
    {x \in table : x.category = categoryName}

getResourcesByCategory(table, categoryName, limit) ==
    returned(awaitQuery(
        {selectColumns(r, r.tags) :
            r \in eqIsActive(selectByCategory(table, categoryName))},
        limit))

getResourcesByTags(table, tags, limit) ==
    returned(awaitQuery(
        {selectColumns(r, TagsIn(r, tags)) :
            r \in eqIsActive({x \in table : TagsIn(x, tags) # <<>>})},
        limit))

getCrisisResources(table) ==
    getResourcesByTags(table, {"Crisis", "Emergency", "24/7"}, 3)

NoResourcesText ==
    Text("I don't have specific resources for that request right now")

truthy(v) == v # Null /\ v # Undefined /\ v # ""

formatResource(resource) ==
    LET category == resource.ivor_categories
        tags == resource.ivor_resource_tags
    IN  "**" \o resource.title \o "**"
        \o (IF Has(category, "name") THEN " (" \o category.name \o ")" ELSE "")
        \o "\n" \o resource.description \o "\n"
        \o (IF truthy(resource.phone) THEN "tel " \o resource.phone \o "\n" ELSE "")
        \o (IF truthy(resource.website_url)
            THEN "web " \o resource.website_url \o "\n" ELSE "")
        \o (IF truthy(resource.email) THEN "mail " \o resource.email \o "\n" ELSE "")
        \o (IF Len(tags) > 0 THEN "tags " \o join(tags, ", ") \o "\n" ELSE "")
        \o "\n"

\* a null or undefined array argument
NoArray == [i \in {0} |-> Null]

\* !resources || resources.length === 0
noResources(resources) == resources = NoArray \/ Len(resources) = 0

\* Faulty variant for C11: the list is rendered last row first.
formatResourcesForResponseReversed(resources, context) ==
    IF noResources(resources)
    THEN Text("I don't have specific resources for that request right now")
    ELSE Template("Here are some resources that might help",
                  << (IF context # "" THEN context \o "\n\n" ELSE "")
                     \o "Here are some resources that might help:\n\n"
                     \o join([i \in 1..Len(resources) |->
                                formatResource(resources[Len(resources) + 1 - i])], "")
                     \o "Remember, you're not alone and support is available. Is there anything specific you'd like to know more about?" >>)

\* Faulty variant for C9: an empty list is formatted like any other.
formatResourcesForResponseNoFallback(resources, context) ==
    Template("Here are some resources that might help",
             << (IF context # "" THEN context \o "\n\n" ELSE "")
                \o "Here are some resources that might help:\n\n"
                \o join([i \in 1..Len(resources) |-> formatResource(resources[i])], "")
                \o "Remember, you're not alone and support is available. Is there anything specific you'd like to know more about?" >>)

formatResourcesForResponse(resources, context) ==
    IF noResources(resources) THEN NoResourcesText
    ELSE Template("Here are some resources that might help",
                  << (IF context # "" THEN context \o "\n\n" ELSE "")
                     \o "Here are some resources that might help:\n\n"
                     \o join([i \in 1..Len(resources) |-> formatResource(resources[i])], "")
                     \o "Remember, you're not alone and support is available. Is there anything specific you'd like to know more about?" >>)

(***************************************************************************)
(* Dialogue router, server.js:615-748                                      *)
(*                                                                         *)
(* generateIVORResponse is async: its value is the set of ways the turn    *)
(* can complete, each a record [reply, session, calls] with the reply, the *)
(* session as the turn leaves it and the store calls awaited on the way.   *)
(***************************************************************************)
CommunityText == Text("Connecting with community is powerful!")
CareerText == Text("Career advancement is key to liberation.")
LegacyCrisisText == Text("IMMEDIATE SUPPORT AVAILABLE:")

\* userContext?.session_id || 'default'
sessionIdOf(userContext) ==
    IF Has(userContext, "session_id") /\ truthy(userContext.session_id)
    THEN userContext.session_id ELSE "default"

newSession(sessionId, now) ==
    [id |-> sessionId, currentService |-> Undefined, currentStep |-> Undefined,
     progress |-> EmptyObject, startedAt |-> now, lastActivity |-> now]

done(reply, session) == {[reply |-> reply, session |-> session, calls |-> <<>>]}

\* one awaited store call: whether the store reported an error, and how many
\* rows the adapter handed back
awaitedCall(op, c) == [op |-> op, error |-> c.error, rows |-> Len(c.value)]

\* Faulty variant for C14: the reply is formatted without the rows the
\* lookup returned.
lookedUpDroppingRows(op, completions, context, session) ==
    {[reply |-> formatResourcesForResponse(<<>>, context), session |-> session,
      calls |-> <<awaitedCall(op, c)>>] : c \in completions}

lookedUp(op, completions, context, session) ==
    {[reply |-> formatResourcesForResponse(c.value, context), session |-> session,
      calls |-> <<awaitedCall(op, c)>>] : c \in completions}

\* Faulty variant for C29: a message about community makes
\* 'community-resources', a service id of IVOR_SERVICES that has no script,
\* the active service.
belowResourceSearchEnteringCommunity(lowerMessage, session, awaited) ==
    LET has(k) == includes(lowerMessage, k)
        out(reply, s) == [reply |-> reply, session |-> s, calls |-> awaited]
    IN  IF has("community") \/ has("events") \/ has("meetup")
        THEN out(CommunityText,
                 [session EXCEPT !.currentService = "community-resources",
                                 !.currentStep = "introduction"])
        ELSE IF has("work") \/ has("job") \/ has("career")
        THEN out(CareerText, session)
        ELSE IF has("crisis") \/ has("emergency") \/ has("urgent")
        THEN out(LegacyCrisisText, session)
        ELSE IF has("main menu") \/ has("services") \/ has("start over")
        THEN out(generateServiceSelectionResponse,
                 [session EXCEPT !.currentService = Undefined,
                                 !.currentStep = Undefined,
                                 !.progress = EmptyObject])
        ELSE out(generateWelcomeResponse, session)

\* server.js:686-747, the branches below the general resource search
belowResourceSearch(lowerMessage, session, awaited) ==
    LET has(k) == includes(lowerMessage, k)
        out(reply, s) == [reply |-> reply, session |-> s, calls |-> awaited]
    IN  IF has("community") \/ has("events") \/ has("meetup")
        THEN out(CommunityText, session)
        ELSE IF has("work") \/ has("job") \/ has("career")
        THEN out(CareerText, session)
        ELSE IF has("crisis") \/ has("emergency") \/ has("urgent")
        THEN out(LegacyCrisisText, session)
        ELSE IF has("main menu") \/ has("services") \/ has("start over")
        THEN out(generateServiceSelectionResponse,
                 [session EXCEPT !.currentService = Undefined,
                                 !.currentStep = Undefined,
                                 !.progress = EmptyObject])
        ELSE out(generateWelcomeResponse, session)

\* server.js:634-747, the service selection logic of generateIVORResponse:
\* what it does with a message when the session has no active service
serviceSelection(message, session, table) ==
    LET lowerMessage == toLowerCase(message)
        has(k) == includes(lowerMessage, k)
    IN  IF has("health advice") \/ has("health guidance") \/ has("sexual health")
                \/ has("mental health") \/ has("physical health") \/ has("healthcare")
        THEN done(generateHealthTopicsMenu,
                  [session EXCEPT !.currentService = "health-advice",
                                  !.currentStep = "introduction"])
        ELSE IF has("wellness") \/ has("habit")
        THEN done(startWellnessCoaching,
                  [session EXCEPT !.currentService = "wellness-coaching",
                                  !.currentStep = "introduction",
                                  !.progress = [completedSections |-> <<>>,
                                                currentSection |-> "persona-snapshot"]])
        ELSE IF has("problem") \/ has("challenge") \/ has("stuck") \/ has("solve")
        THEN done(startProblemSolving,
                  [session EXCEPT !.currentService = "problem-solving",
                                  !.currentStep = "introduction"])
        ELSE IF has("journal") \/ has("writing") \/ has("reflection") \/ has("ritual")
        THEN done(startTransformationalJournaling,
                  [session EXCEPT !.currentService = "transformational-journaling",
                                  !.currentStep = "time-identification",
                                  !.progress = [journalEntries |-> EmptyObject,
                                                currentRitual |-> Null]])
        ELSE IF has("service") \/ has("help with") \/ has("coaching")
        THEN done(generateServiceSelectionResponse, session)
        ELSE IF has("mental health") \/ has("therapy") \/ has("counseling")
        THEN done(generateCommunityResourceResponse("mental-health"), session)
        ELSE IF has("housing") \/ has("accommodation") \/ has("homeless")
        THEN lookedUp("getResourcesByCategory",
                      getResourcesByCategory(table, "Housing", 5),
                      "Housing security is fundamental to wellbeing. Here are LGBTQ+ friendly housing resources:",
                      session)
        ELSE IF has("legal") \/ has("discrimination") \/ has("rights")
        THEN lookedUp("getResourcesByCategory",
                      getResourcesByCategory(table, "Legal Aid", 5),
                      "I can connect you with legal support that understands intersectional discrimination:",
                      session)
        ELSE IF has("crisis") \/ has("emergency") \/ has("urgent")
        THEN lookedUp("getCrisisResources", getCrisisResources(table),
                      "**IMMEDIATE SUPPORT AVAILABLE** - You are not alone and help is available right now:",
                      session)
        ELSE IF has("help") \/ has("support") \/ has("resource")
        THEN {IF Len(c.value) > 0
              THEN [reply |-> formatResourcesForResponse(c.value,
                                    "I found some resources that might help:"),
                    session |-> session,
                    calls |-> <<awaitedCall("searchResources", c)>>]
              ELSE belowResourceSearch(lowerMessage, session,
                        <<awaitedCall("searchResources", c)>>)
              : c \in searchResources(table, message, 3)}
        ELSE {belowResourceSearch(lowerMessage, session, <<>>)}

\* Faulty variant for C13: the generic service / coaching check is made
\* before the script triggers.
generateIVORResponseCatchAllFirst(message, userContext, sessions, table, now) ==
    LET lowerMessage == toLowerCase(message)
        has(k) == includes(lowerMessage, k)
        sessionId == sessionIdOf(userContext)
        created == IF Has(sessions, sessionId) THEN sessions[sessionId]
                   ELSE newSession(sessionId, now)
        session == [created EXCEPT !.lastActivity = now]
    IN  IF session.currentService # Undefined
        THEN LET r == handleServiceConversation(message, session)
             IN  done(r.result, r.session)
        ELSE IF has("service") \/ has("help with") \/ has("coaching")
        THEN done(generateServiceSelectionResponse, session)
        ELSE serviceSelection(message, session, table)

\* Faulty variant for C17: the service selection logic runs first, and the
\* active script gets only the messages it does not recognise.
generateIVORResponseSelectionFirst(message, userContext, sessions, table, now) ==
    LET sessionId == sessionIdOf(userContext)
        created == IF Has(sessions, sessionId) THEN sessions[sessionId]
                   ELSE newSession(sessionId, now)
        session == [created EXCEPT !.lastActivity = now]
        selected == serviceSelection(message, session, table)
    IN  IF /\ session.currentService # Undefined
           /\ \A o \in selected : o.reply = generateWelcomeResponse
        THEN LET r == handleServiceConversation(message, session)
             IN  done(r.result, r.session)
        ELSE selected

\* Faulty variant for C15: every turn begins with a fresh session.
generateIVORResponseFreshSession(message, userContext, sessions, table, now) ==
    serviceSelection(message, newSession(sessionIdOf(userContext), now), table)

generateIVORResponse(message, userContext, sessions, table, now) ==
    LET sessionId == sessionIdOf(userContext)
        created == IF Has(sessions, sessionId) THEN sessions[sessionId]
                   ELSE newSession(sessionId, now)
        session == [created EXCEPT !.lastActivity = now]
    IN  IF session.currentService # Undefined
        THEN LET r == handleServiceConversation(message, session)
             IN  done(r.result, r.session)
        ELSE serviceSelection(message, session, table)

(***************************************************************************)
(* POST /api/chat, server.js:387-473                                       *)
(***************************************************************************)
Reply(status, text, emergency, level) ==
    [status |-> status, response |-> text,
     emergency_protocol_activated |-> emergency, distress_level |-> level]

\* Faulty variant for C1: the router runs, and touches the session, before the
\* classifier's verdict is acted on.
PostChatRoutingFirst(message, conversation_id, user_context) ==
    /\ clock' = clock + 1
    /\ request' = [message |-> message, conversation_id |-> conversation_id,
                   user_context |-> user_context]
    /\ UNCHANGED <<ivor_resources, result, inflight>>
    /\ IF message = ""
       THEN /\ response' = Reply(400, Text("Message is required and must be a string"),
                                 FALSE, Undefined)
            /\ calls' = <<>>
            /\ UNCHANGED <<userSessions, ivor_conversations>>
       ELSE \E o \in generateIVORResponse(message, user_context, userSessions,
                                          ivor_resources, clock) :
            LET distressSignal == detectDistressLevel(message)
            IN  /\ userSessions' = Put(userSessions, o.session.id, o.session)
                /\ calls' = <<>>
                /\ UNCHANGED ivor_conversations
                /\ response' =
                     IF distressSignal.immediateResponse
                     THEN Reply(200, generateEmergencyResponse(distressSignal),
                                TRUE, distressSignal.level)
                     ELSE Reply(200, o.reply, FALSE, Undefined)

\* Faulty variant for C3: the emergency turn is stored like any other turn, so
\* its reply waits for the conversation store.
PostChatStoringEmergency(message, conversation_id, user_context) ==
    /\ clock' = clock + 1
    /\ request' = [message |-> message, conversation_id |-> conversation_id,
                   user_context |-> user_context]
    /\ UNCHANGED <<ivor_resources, result, inflight>>
    /\ IF message = ""
       THEN /\ response' = Reply(400, Text("Message is required and must be a string"),
                                 FALSE, Undefined)
            /\ calls' = <<>>
            /\ UNCHANGED <<userSessions, ivor_conversations>>
       ELSE LET distressSignal == detectDistressLevel(message)
            IN  \E o \in IF distressSignal.immediateResponse
                         THEN {[reply |-> generateEmergencyResponse(distressSignal),
                                session |-> [id |-> Undefined], calls |-> <<>>]}
                         ELSE generateIVORResponse(message, user_context, userSessions,
                                                   ivor_resources, clock) :
                    /\ userSessions' =
                         IF distressSignal.immediateResponse THEN userSessions
                         ELSE Put(userSessions, o.session.id, o.session)
                    /\ response' = Reply(200, o.reply, distressSignal.immediateResponse,
                                         IF distressSignal.immediateResponse
                                         THEN distressSignal.level ELSE Undefined)
                    /\ IF truthy(conversation_id)
                       THEN \E error \in BOOLEAN :
                            /\ calls' = Append(o.calls, [op |-> "upsert", error |-> error,
                                                         rows |-> 0])
                            /\ ivor_conversations' =
                                 IF error THEN ivor_conversations
                                 ELSE Put(ivor_conversations, conversation_id,
                                          [id |-> conversation_id,
                                           messages |->
                                             << [role |-> "user", content |-> Text(message),
                                                 timestamp |-> clock],
                                                [role |-> "assistant", content |-> o.reply,
                                                 timestamp |-> clock] >>,
                                           updated_at |-> clock])
                       ELSE /\ calls' = o.calls
                            /\ UNCHANGED ivor_conversations

PostChat(message, conversation_id, user_context) ==
    /\ clock' = clock + 1
    /\ request' = [message |-> message, conversation_id |-> conversation_id,
                   user_context |-> user_context]
    /\ UNCHANGED <<ivor_resources, result, inflight>>
    /\ IF message = ""
       THEN /\ response' = Reply(400, Text("Message is required and must be a string"),
                                 FALSE, Undefined)
            /\ calls' = <<>>
            /\ UNCHANGED <<userSessions, ivor_conversations>>
       ELSE LET distressSignal == detectDistressLevel(message)
            IN  IF distressSignal.immediateResponse
                THEN /\ response' = Reply(200, generateEmergencyResponse(distressSignal),
                                          TRUE, distressSignal.level)
                     /\ calls' = <<>>
                     /\ UNCHANGED <<userSessions, ivor_conversations>>
                ELSE \E o \in generateIVORResponse(message, user_context, userSessions,
                                                   ivor_resources, clock) :
                        /\ userSessions' = Put(userSessions, o.session.id, o.session)
                        /\ response' = Reply(200, o.reply, FALSE, Undefined)
                        /\ IF truthy(conversation_id)
                           THEN \E error \in BOOLEAN :
                                /\ calls' = Append(o.calls, [op |-> "upsert", error |-> error,
                                                          rows |-> 0])
                                /\ ivor_conversations' =
                                     IF error THEN ivor_conversations
                                     ELSE Put(ivor_conversations, conversation_id,
                                              [id |-> conversation_id,
                                               messages |->
                                                 << [role |-> "user", content |-> Text(message),
                                                     timestamp |-> clock],
                                                    [role |-> "assistant", content |-> o.reply,
                                                     timestamp |-> clock] >>,
                                               updated_at |-> clock])
                           ELSE /\ calls' = o.calls
                                /\ UNCHANGED ivor_conversations

(***************************************************************************)
(* POST /api/chat with several requests in flight.  Node runs a handler    *)
(* until it awaits store I/O: the resource lookups of server.js:668-681    *)
(* and the upsert of server.js:450.  The awaits of the script handlers     *)
(* (server.js:632, 810-840) wait for no I/O, so a handler that reaches     *)
(* them is run on in the same step.  A turn of inflight is a record        *)
(*   [pc, message, conversation_id, user_context, session, reply]          *)
(* with pc one of idle (not received), lookup, store (suspended at that    *)
(* await) and sent.                                                        *)
(***************************************************************************)
MaxInFlight == 2

TurnIds == 1..MaxInFlight

IdleTurn ==
    [pc |-> "idle", message |-> "", conversation_id |-> Undefined,
     user_context |-> EmptyObject, session |-> [id |-> Undefined],
     reply |-> EmptyText]

NoTurns == [t \in TurnIds |-> IdleTurn]

\* the selection logic of generateIVORResponse awaits a resource lookup
suspends(message, session, table) ==
    \E o \in serviceSelection(message, session, table) : o.calls # <<>>

\* Faulty variant for C27: the resumed turn works on the copy of the session
\* it read before the await.
liveSessionCopied(live, seen) == seen

\* `session` is a reference to the object held by the userSessions Map: after
\* an await it shows what other turns wrote in the meantime
liveSession(live, seen) == live

\* server.js:438-467, from the return of generateIVORResponse: a turn with a
\* conversation id awaits the upsert, any other turn sends its reply
afterRouting(t, turn, reply) ==
    IF truthy(turn.conversation_id)
    THEN /\ inflight' = [inflight EXCEPT ![t] = [turn EXCEPT !.pc = "store",
                                                             !.reply = reply]]
         /\ UNCHANGED response
    ELSE /\ inflight' = [inflight EXCEPT ![t] = [turn EXCEPT !.pc = "sent",
                                                             !.reply = reply]]
         /\ response' = Reply(200, reply, FALSE, Undefined)

\* server.js:387-438 and 615-747 up to the first awaited store operation
ReceiveChat(t, message, conversation_id, user_context) ==
    /\ inflight[t].pc = "idle"
    /\ \A u \in 1..(t - 1) : inflight[u].pc # "idle"
    /\ clock' = clock + 1
    /\ request' = [message |-> message, conversation_id |-> conversation_id,
                   user_context |-> user_context]
    /\ UNCHANGED <<ivor_conversations, ivor_resources, result, calls>>
    /\ LET turn == [IdleTurn EXCEPT !.message = message,
                                    !.conversation_id = conversation_id,
                                    !.user_context = user_context]
           distressSignal == detectDistressLevel(message)
           sessionId == sessionIdOf(user_context)
           created == IF Has(userSessions, sessionId) THEN userSessions[sessionId]
                      ELSE newSession(sessionId, clock)
           session == [created EXCEPT !.lastActivity = clock]
       IN  IF message = ""
           THEN /\ response' = Reply(400, Text("Message is required and must be a string"),
                                     FALSE, Undefined)
                /\ inflight' = [inflight EXCEPT ![t] = [turn EXCEPT !.pc = "sent"]]
                /\ UNCHANGED userSessions
           ELSE IF distressSignal.immediateResponse
           THEN /\ response' = Reply(200, generateEmergencyResponse(distressSignal),
                                     TRUE, distressSignal.level)
                /\ inflight' = [inflight EXCEPT ![t] =
                                    [turn EXCEPT !.pc = "sent",
                                                 !.reply = generateEmergencyResponse(distressSignal)]]
                /\ UNCHANGED userSessions
           ELSE IF session.currentService = Undefined
                   /\ suspends(message, session, ivor_resources)
           THEN /\ userSessions' = Put(userSessions, sessionId, session)
                /\ inflight' = [inflight EXCEPT ![t] = [turn EXCEPT !.pc = "lookup",
                                                                    !.session = session]]
                /\ UNCHANGED response
           ELSE \E o \in generateIVORResponse(message, user_context, userSessions,
                                              ivor_resources, clock) :
                    /\ userSessions' = Put(userSessions, sessionId, o.session)
                    /\ afterRouting(t, [turn EXCEPT !.session = o.session], o.reply)

\* server.js:668-747 from the completion of the awaited lookup
ResourcesReturned(t) ==
    /\ inflight[t].pc = "lookup"
    /\ UNCHANGED <<ivor_conversations, ivor_resources, clock, request, result>>
    /\ LET turn == inflight[t]
           sessionId == sessionIdOf(turn.user_context)
           session == liveSession(userSessions[sessionId], turn.session)
       IN  \E o \in serviceSelection(turn.message, session, ivor_resources) :
                /\ userSessions' = Put(userSessions, sessionId, o.session)
                /\ calls' = o.calls
                /\ afterRouting(t, [turn EXCEPT !.session = o.session], o.reply)

\* server.js:450-467 from the completion of the awaited upsert
ConversationStored(t) ==
    /\ inflight[t].pc = "store"
    /\ UNCHANGED <<userSessions, ivor_resources, clock, request, result>>
    /\ LET turn == inflight[t]
       IN  /\ inflight' = [inflight EXCEPT ![t] = [turn EXCEPT !.pc = "sent"]]
           /\ response' = Reply(200, turn.reply, FALSE, Undefined)
           /\ \E error \in BOOLEAN :
                /\ calls' = <<[op |-> "upsert", error |-> error, rows |-> 0]>>
                /\ ivor_conversations' =
                     IF error THEN ivor_conversations
                     ELSE Put(ivor_conversations, turn.conversation_id,
                              [id |-> turn.conversation_id,
                               messages |->
                                 << [role |-> "user", content |-> Text(turn.message),
                                     timestamp |-> clock],
                                    [role |-> "assistant", content |-> turn.reply,
                                     timestamp |-> clock] >>,
                               updated_at |-> clock])

\* the same requests handled one at a time: reply and session store after a
\* chat turn that runs from its first line to its last with no other turn
\* in between
chatOutcomes(message, user_context, sessions, table, now) ==
    LET distressSignal == detectDistressLevel(message)
    IN  IF message = ""
        THEN {[reply |-> EmptyText, sessions |-> sessions]}
        ELSE IF distressSignal.immediateResponse
        THEN {[reply |-> generateEmergencyResponse(distressSignal),
               sessions |-> sessions]}
        ELSE {[reply |-> o.reply, sessions |-> Put(sessions, o.session.id, o.session)] :
                o \in generateIVORResponse(message, user_context, sessions, table, now)}

\* the turns of `order` handled one after another, starting from `sessions`
RECURSIVE serialRuns(_, _, _, _)
serialRuns(order, turns, sessions, table) ==
    IF order = <<>> THEN {[sessions |-> sessions, replies |-> {}]}
    ELSE LET t == Head(order)
         IN  UNION {{[sessions |-> r.sessions,
                      replies |-> r.replies \cup {<<t, o.reply>>}] :
                        r \in serialRuns(Tail(order), turns, o.sessions, table)} :
                    o \in chatOutcomes(turns[t].message, turns[t].user_context,
                                       sessions, table, 0)}

\* what the scripts keep of a session
scriptState(sessions) ==
    [id \in DOMAIN sessions |->
        [currentService |-> sessions[id].currentService,
         currentStep |-> sessions[id].currentStep,
         progress |-> sessions[id].progress]]

(***************************************************************************)
(* GET /api/conversation/:id, server.js:1758-1775                          *)
(***************************************************************************)
\* data || null, with null written as a row whose columns are all null
NullConversation == [id |-> Null, messages |-> <<>>, updated_at |-> Null]

\* select('*').eq('id', id).single(): the row, or no row (error PGRST116,
\* answered with conversation: null), or a store error (answered with 500)
GetConversation(id) ==
    /\ \E error \in BOOLEAN :
        result' = [op |-> "getConversation", limit |-> 0, value |-> <<>>,
                   error |-> error, id |-> id,
                   status |-> IF error THEN 500 ELSE 200,
                   conversation |->
                        IF ~error /\ Has(ivor_conversations, id)
                        THEN ivor_conversations[id] ELSE NullConversation]
    /\ UNCHANGED <<userSessions, ivor_conversations, ivor_resources, clock,
                   request, response, calls, inflight>>

(***************************************************************************)
(* Admin writes to ivor_resources, knowledgeService.js:173-208, and direct *)
(* calls of the adapter's queries                                          *)
(***************************************************************************)
MaxResources == 2
MaxLimit == 2

ResourceIds == 1..MaxResources

createResource(resourceData) ==
    /\ \E id \in ResourceIds :
        /\ \A r \in ivor_resources : r.id # id
        /\ ivor_resources' = ivor_resources \cup {[resourceData EXCEPT !.id = id]}
    /\ result' = [op |-> "createResource", limit |-> 0, value |-> <<>>, error |-> FALSE]
    /\ UNCHANGED <<userSessions, ivor_conversations, clock, request, response, calls, inflight>>

updateResource(id, resourceData) ==
    /\ \E r \in ivor_resources :
        /\ r.id = id
        /\ ivor_resources' = (ivor_resources \ {r})
                                \cup {[resourceData EXCEPT !.id = id]}
    /\ result' = [op |-> "updateResource", limit |-> 0, value |-> <<>>, error |-> FALSE]
    /\ UNCHANGED <<userSessions, ivor_conversations, clock, request, response, calls, inflight>>

deleteResource(id) ==
    /\ \E r \in ivor_resources : r.id = id
    /\ ivor_resources' = {r \in ivor_resources : r.id # id}
    /\ result' = [op |-> "deleteResource", limit |-> 0, value |-> <<>>, error |-> FALSE]
    /\ UNCHANGED <<userSessions, ivor_conversations, clock, request, response, calls, inflight>>

\* a caller awaits one of the four queries
Query(op, limit, completions) ==
    /\ \E c \in completions :
        result' = [op |-> op, limit |-> limit, value |-> c.value, error |-> c.error]
    /\ UNCHANGED <<userSessions, ivor_conversations, ivor_resources, clock,
                   request, response, calls, inflight>>

\* a caller formats a list, as generateIVORResponse does with the list an
\* adapter query returned
formatCall(resources, context) ==
    /\ result' = [op |-> "formatResourcesForResponse", limit |-> 0,
                  value |-> resources, error |-> FALSE, context |-> context,
                  text |-> formatResourcesForResponse(resources, context)]
    /\ UNCHANGED <<userSessions, ivor_conversations, ivor_resources, clock,
                   request, response, calls, inflight>>

\* the context arguments: the default, and two of the router's
Contexts ==
    { "", "I found some resources that might help:",
      "Housing security is fundamental to wellbeing. Here are LGBTQ+ friendly housing resources:" }

Queries == {"housing", "Support"}
CategoryNames == {"Housing", "Mental Health"}
TagLists == {{"Crisis"}, {"Housing", "24/7"}}

(***************************************************************************)
(* Initial state and specifications                                        *)
(***************************************************************************)
NoRequest == [message |-> "", conversation_id |-> Undefined, user_context |-> EmptyObject]
NoResponse == Reply(0, EmptyText, FALSE, Undefined)
NoResult == [op |-> "", limit |-> 0, value |-> <<>>, error |-> FALSE]

InitialStores == {{}, SeededStore}

Init ==
    /\ userSessions = EmptyObject
    /\ ivor_conversations = EmptyObject
    /\ ivor_resources \in InitialStores
    /\ clock = 0
    /\ request = NoRequest
    /\ response = NoResponse
    /\ calls = <<>>
    /\ result = NoResult
    /\ inflight = NoTurns

\* who sends: without a conversation id, with one, and with a session id of
\* its own
Clients ==
    { [conversation_id |-> Undefined, user_context |-> EmptyObject],
      [conversation_id |-> "c1", user_context |-> EmptyObject],
      [conversation_id |-> "c1", user_context |-> [session_id |-> "s1"]] }

\* some client sends one request
Turn(messages, clients) ==
    \E message \in messages, client \in clients :
        PostChat(message, client.conversation_id, client.user_context)

MaxTurns == 2
MaxDialogueTurns == 4
MaxWellnessTurns == 8
MaxJournalingTurns == 4
MaxProblemTurns == 3

Next == clock < MaxTurns /\ Turn(Messages, Clients)
Spec == Init /\ [][Next]_vars

NextDialogue ==
    clock < MaxDialogueTurns /\ Turn(DialogueMessages,
             {[conversation_id |-> "c1", user_context |-> EmptyObject]})
SpecDialogue == Init /\ [][NextDialogue]_vars

NextWellness ==
    clock < MaxWellnessTurns /\ Turn(WellnessMessages,
             {[conversation_id |-> Undefined, user_context |-> EmptyObject]})
SpecWellness == Init /\ [][NextWellness]_vars

NextJournaling ==
    clock < MaxJournalingTurns /\ Turn(JournalingMessages,
             {[conversation_id |-> Undefined, user_context |-> EmptyObject]})
SpecJournaling == Init /\ [][NextJournaling]_vars

NextProblem ==
    clock < MaxProblemTurns /\ Turn(ProblemMessages,
             {[conversation_id |-> Undefined, user_context |-> [session_id |-> "s1"]]})
SpecProblem == Init /\ [][NextProblem]_vars

\* the browser client: useChat.sendMessage posts its conversation id, and
\* the same id as user_context.session
useChatClient(conversationId) ==
    [conversation_id |-> conversationId,
     user_context |-> [timestamp |-> "2026-11-01T09:00:00.000Z",
                       session |-> conversationId]]

\* two browsers, and two callers that set user_context.session_id and name no
\* conversation
CallerClients ==
    { useChatClient("c1"), useChatClient("c2"),
      [conversation_id |-> Undefined, user_context |-> [session_id |-> "s1"]],
      [conversation_id |-> Undefined, user_context |-> [session_id |-> "s2"]] }

CallerMessages ==
    { "wellness", "hello", "I value family and rest", "main menu",
      "I want to END MY LIFE" }

MaxCallerTurns == 3

NextCallers == clock < MaxCallerTurns /\ Turn(CallerMessages, CallerClients)
SpecCallers == Init /\ [][NextCallers]_vars

MaxTriggerTurns == 3

NextTriggers ==
    clock < MaxTriggerTurns /\ Turn(TriggerMessages,
             {[conversation_id |-> "c1", user_context |-> EmptyObject]})
SpecTriggers == Init /\ [][NextTriggers]_vars

MaxResourceTurns == 3

NextResources ==
    clock < MaxResourceTurns /\ Turn(ResourceMessages,
             {[conversation_id |-> "c1", user_context |-> EmptyObject]})
SpecResources == Init /\ [][NextResources]_vars

\* the classifier applied to texts put together from words that are, in some
\* letter case, critical, high or medium keywords, or none
Fragments ==
    { "Suicide", "Hopeless", "alone", "worthless", "stressed", "Worried",
      "sad", "hello" }

MaxFragments == 3

Texts ==
    {join(words, " ") : words \in UNION {[1..n -> Fragments] : n \in 0..MaxFragments}}

InitClassify ==
    /\ userSessions = EmptyObject
    /\ ivor_conversations = EmptyObject
    /\ ivor_resources = {}
    /\ clock = 0
    /\ request \in {[NoRequest EXCEPT !.message = text] : text \in Texts}
    /\ response = NoResponse
    /\ calls = <<>>
    /\ result = NoResult
    /\ inflight = NoTurns

classifyCall ==
    /\ result' = [op |-> "detectDistressLevel", limit |-> 0, value |-> <<>>,
                  error |-> FALSE, message |-> request.message,
                  signal |-> detectDistressLevel(request.message)]
    /\ UNCHANGED <<userSessions, ivor_conversations, ivor_resources, clock,
                   request, response, calls, inflight>>

NextClassify == classifyCall
SpecClassify == InitClassify /\ [][NextClassify]_vars

\* the classifier applied to two texts and to the one followed by the
\* other; the texts are put together, with nothing in between, from pieces
\* that are keywords, parts of a keyword, or neither
Pieces == { "Crisis", "Hopeless ", "alone", "Worried ", "s", "ad " }

MaxPieces == 2

PiecedTexts ==
    {join(pieces, "") : pieces \in UNION {[1..n -> Pieces] : n \in 0..MaxPieces}}

InitConcat ==
    /\ userSessions = EmptyObject
    /\ ivor_conversations = EmptyObject
    /\ ivor_resources = {}
    /\ clock = 0
    /\ request \in {[NoRequest EXCEPT !.message = text] : text \in PiecedTexts}
    /\ response = NoResponse
    /\ calls = <<>>
    /\ result = NoResult
    /\ inflight = NoTurns

concatCall(appended) ==
    /\ result = NoResult
    /\ result' = [op |-> "detectDistressLevel", limit |-> 0, value |-> <<>>,
                  error |-> FALSE, message |-> request.message,
                  appended |-> appended,
                  signal |-> detectDistressLevel(request.message),
                  signalAppended |-> detectDistressLevel(appended),
                  signalBoth |-> detectDistressLevel(request.message \o appended)]
    /\ UNCHANGED <<userSessions, ivor_conversations, ivor_resources, clock,
                   request, response, calls, inflight>>

NextConcat == \E appended \in PiecedTexts : concatCall(appended)
SpecConcat == InitConcat /\ [][NextConcat]_vars

MaxModelTurns == 3

NextModels ==
    clock < MaxModelTurns /\ Turn(ModelMessages,
             {[conversation_id |-> Undefined, user_context |-> EmptyObject]})
SpecModels == Init /\ [][NextModels]_vars

MaxHealthTurns == 3

NextHealth ==
    clock < MaxHealthTurns /\ Turn(HealthMessages,
             {[conversation_id |-> Undefined, user_context |-> EmptyObject]})
SpecHealth == Init /\ [][NextHealth]_vars

MaxDescriptionTurns == 5

NextDescription ==
    clock < MaxDescriptionTurns /\ Turn(DescriptionMessages,
             {[conversation_id |-> Undefined, user_context |-> EmptyObject]})
SpecDescription == Init /\ [][NextDescription]_vars

MaxConversationTurns == 3

ConversationClients ==
    { [conversation_id |-> "c1", user_context |-> EmptyObject],
      [conversation_id |-> "c2", user_context |-> EmptyObject] }

NextConversation ==
    \/ clock < MaxConversationTurns /\ Turn(ConversationMessages, ConversationClients)
    \/ \E id \in {"c1", "c2"} : GetConversation(id)
SpecConversation == Init /\ [][NextConversation]_vars

InFlightClients == { [conversation_id |-> "c1", user_context |-> EmptyObject] }

InitInFlight ==
    /\ userSessions = EmptyObject
    /\ ivor_conversations = EmptyObject
    /\ ivor_resources = SeededStore
    /\ clock = 0
    /\ request = NoRequest
    /\ response = NoResponse
    /\ calls = <<>>
    /\ result = NoResult
    /\ inflight = NoTurns

NextInFlight ==
    \E t \in TurnIds :
        \/ \E message \in InFlightMessages, client \in InFlightClients :
                ReceiveChat(t, message, client.conversation_id, client.user_context)
        \/ ResourcesReturned(t)
        \/ ConversationStored(t)
SpecInFlight == InitInFlight /\ [][NextInFlight]_vars

MaxServiceTurns == 3

NextServices ==
    clock < MaxServiceTurns /\ Turn(ServiceMessages,
             {[conversation_id |-> Undefined, user_context |-> EmptyObject]})
SpecServices == Init /\ [][NextServices]_vars

\* the script handlers called directly, with sessions whose step pointers
\* take the values the scripts assign and values they never assign
scriptSession(service, step, progress) ==
    [id |-> "default", currentService |-> service, currentStep |-> step,
     progress |-> progress, startedAt |-> 0, lastActivity |-> 0]

WellnessSessions ==
    {scriptSession("wellness-coaching", "introduction",
                   [completedSections |-> <<>>, currentSection |-> section]) :
        section \in {WELLNESS_SECTIONS[i].id : i \in DOMAIN WELLNESS_SECTIONS}
                        \cup {"values-inventory"}}
    \cup {scriptSession("wellness-coaching", "introduction",
                        [completedSections |-> <<>>])}

MorningSessions ==
    {scriptSession("transformational-journaling", "time-identification",
                   [journalEntries |-> EmptyObject, currentRitual |-> "morning",
                    morningStep |-> step]) :
        step \in {"breathwork", "vision", "reframe", "affirmations", "gratitude",
                  "visualization", "stretching"}}
    \cup {scriptSession("transformational-journaling", "time-identification",
                        [journalEntries |-> EmptyObject, currentRitual |-> "morning"])}

EveningSessions ==
    {scriptSession("transformational-journaling", "time-identification",
                   [journalEntries |-> EmptyObject, currentRitual |-> "evening",
                    eveningStep |-> step]) :
        step \in {"wins", "lesson", "growth", "tomorrow-impact", "tomorrow-leverage",
                  "tomorrow-reality", "starter-actions", "dreams"}}
    \cup {scriptSession("transformational-journaling", "time-identification",
                        [journalEntries |-> EmptyObject, currentRitual |-> "evening"])}

JournalingSessions ==
    {scriptSession("transformational-journaling", step,
                   [journalEntries |-> EmptyObject, currentRitual |-> ritual,
                    morningStep |-> "breathwork", eveningStep |-> "wins"]) :
        step \in {"time-identification", "ritual"},
        ritual \in {Null, "morning", "evening", "noon"}}

HandlerMessages == { "ready", "finish my thesis", "Morning please", "main menu" }

handlerCall(op, message, session, r) ==
    /\ result' = [op |-> op, limit |-> 0, value |-> <<>>, error |-> FALSE,
                  message |-> message, session |-> session,
                  reply |-> r.result, after |-> r.session]
    /\ UNCHANGED <<userSessions, ivor_conversations, ivor_resources, clock,
                   request, response, calls, inflight>>

NextHandlers ==
    \/ \E message \in HandlerMessages, session \in WellnessSessions :
            handlerCall("handleWellnessCoaching", message, session,
                        handleWellnessCoaching(message, session))
    \/ \E message \in HandlerMessages, session \in MorningSessions :
            handlerCall("handleMorningRitual", message, session,
                        handleMorningRitual(message, session))
    \/ \E message \in HandlerMessages, session \in EveningSessions :
            handlerCall("handleEveningRitual", message, session,
                        handleEveningRitual(message, session))
    \/ \E message \in HandlerMessages, session \in JournalingSessions :
            handlerCall("handleTransformationalJournaling", message, session,
                        handleTransformationalJournaling(message, session))

InitStore ==
    /\ userSessions = EmptyObject
    /\ ivor_conversations = EmptyObject
    /\ ivor_resources = {}
    /\ clock = 0
    /\ request = NoRequest
    /\ response = NoResponse
    /\ calls = <<>>
    /\ result = NoResult
    /\ inflight = NoTurns

NextStore ==
    \/ \E resourceData \in ResourceData : createResource(resourceData)
    \/ \E id \in ResourceIds, resourceData \in ResourceData :
            updateResource(id, resourceData)
    \/ \E id \in ResourceIds : deleteResource(id)
    \/ \E query \in Queries, limit \in 1..MaxLimit :
            Query("searchResources", limit, searchResources(ivor_resources, query, limit))
    \/ \E categoryName \in CategoryNames, limit \in 1..MaxLimit :
            Query("getResourcesByCategory", limit,
                  getResourcesByCategory(ivor_resources, categoryName, limit))
    \/ \E tags \in TagLists, limit \in 1..MaxLimit :
            Query("getResourcesByTags", limit,
                  getResourcesByTags(ivor_resources, tags, limit))
    \/ Query("getCrisisResources", 3, getCrisisResources(ivor_resources))

SpecStore == InitStore /\ [][NextStore]_vars

SpecHandlers == InitStore /\ [][NextHandlers]_vars

\* the formatter applied to the lists the adapter returns from any part of
\* the seeded table, and to a missing list
InitFormat ==
    /\ userSessions = EmptyObject
    /\ ivor_conversations = EmptyObject
    /\ ivor_resources \in SUBSET SeededStore
    /\ clock = 0
    /\ request = NoRequest
    /\ response = NoResponse
    /\ calls = <<>>
    /\ result = NoResult
    /\ inflight = NoTurns

NextFormat ==
    \/ \E query \in Queries :
            Query("searchResources", 3, searchResources(ivor_resources, query, 3))
    \/ Query("getCrisisResources", 3, getCrisisResources(ivor_resources))
    \/ \E context \in Contexts :
            /\ result.op \in {"searchResources", "getCrisisResources"}
            /\ formatCall(result.value, context)
    \/ \E context \in Contexts : formatCall(NoArray, context)

SpecFormat == InitFormat /\ [][NextFormat]_vars

(***************************************************************************)
(* Properties                                                              *)
(***************************************************************************)

\* C1: a message that contains a critical distress keyword, in any letter
\* case, is answered with the critical emergency template whatever the
\* session looks like (absent, idle, or at any step of a script), and the
\* turn leaves the session store exactly as it was: no session is created
\* and currentService, currentStep and progress of an existing one keep
\* their values.
C1_CriticalOverridesDialogue ==
    [][ LET lowerMessage == toLowerCase(request'.message)
        IN  (\E i \in DOMAIN criticalKeywords : includes(lowerMessage, criticalKeywords[i]))
            => /\ response'.status = 200
               /\ response'.response = EmergencyCritical
               /\ userSessions' = userSessions ]_vars

\* the critical template was returned while the wellness script was under way
C1_Witness ==
    /\ response.response = EmergencyCritical
    /\ Has(userSessions, "default")
    /\ userSessions["default"].currentService = "wellness-coaching"
    /\ Len(userSessions["default"].progress.completedSections) >= 1

\* C2: the reply is an emergency template if and only if the classifier
\* says immediateResponse, and then it is the template of the classified
\* level; a message classified medium or low gets the reply of the normal
\* session and dialogue routing, which is none of the three emergency
\* templates.
C2_EmergencyIffImmediate ==
    [][ request'.message # "" =>
        LET distressSignal == detectDistressLevel(request'.message)
        IN  IF distressSignal.immediateResponse
            THEN /\ response'.emergency_protocol_activated
                 /\ response'.distress_level = distressSignal.level
                 /\ distressSignal.level \in {"critical", "high"}
                 /\ response'.response =
                        IF distressSignal.level = "critical" THEN EmergencyCritical
                        ELSE EmergencyHigh
            ELSE /\ distressSignal.level \in {"medium", "low"}
                 /\ ~response'.emergency_protocol_activated
                 /\ response'.response
                        \notin {EmergencyCritical, EmergencyHigh, EmergencyMedium}
                 /\ \E o \in generateIVORResponse(request'.message, request'.user_context,
                                                  userSessions, ivor_resources, clock) :
                        /\ response'.response = o.reply
                        /\ userSessions' = Put(userSessions, o.session.id, o.session) ]_vars

\* a message of level high got the high template, after a message of level
\* medium had been routed and stored as an ordinary turn
C2_Witness ==
    /\ detectDistressLevel(request.message).level = "high"
    /\ response.response = EmergencyHigh
    /\ Has(ivor_conversations, "c1")
    /\ detectDistressLevel(ivor_conversations["c1"].messages[1].content.t).level = "medium"
    /\ ivor_conversations["c1"].messages[2].content = generateWelcomeResponse

\* C3: a turn that triggers the distress short-circuit is answered with the
\* emergency reply without awaiting any collaborator: no resource query and
\* no conversation write is made, so no store outcome can change the reply.
C3_EmergencyAwaitsNothing ==
    [][ (request'.message # "" /\ detectDistressLevel(request'.message).immediateResponse)
        => /\ response'.status = 200
           /\ response'.emergency_protocol_activated
           /\ response'.response \in {EmergencyCritical, EmergencyHigh}
           /\ calls' = <<>>
           /\ ivor_conversations' = ivor_conversations ]_vars

\* an emergency reply to a request that named a conversation and whose text
\* would otherwise have led to a crisis lookup in a store that holds rows
C3_Witness ==
    /\ response.emergency_protocol_activated
    /\ request.conversation_id = "c1"
    /\ ~Has(ivor_conversations, "c1")
    /\ includes(toLowerCase(request.message), "emergency")
    /\ ivor_resources # {}
    /\ calls = <<>>

\* C4, as stated: from a session with one of the four scripts active, every
\* message containing "main menu", "services" or "start over" returns the
\* main menu and leaves currentService and currentStep absent and progress
\* empty.
C4_NavigationAlwaysResets ==
    [][ LET sessionId == sessionIdOf(request'.user_context)
            lowerMessage == toLowerCase(request'.message)
        IN  ( /\ Has(userSessions, sessionId)
              /\ userSessions[sessionId].currentService
                    \in {"wellness-coaching", "problem-solving",
                         "transformational-journaling", "health-advice"}
              /\ \/ includes(lowerMessage, "main menu")
                 \/ includes(lowerMessage, "services")
                 \/ includes(lowerMessage, "start over") )
            => /\ response'.response = generateServiceSelectionResponse
               /\ userSessions'[sessionId].currentService = Undefined
               /\ userSessions'[sessionId].currentStep = Undefined
               /\ userSessions'[sessionId].progress = EmptyObject ]_vars

\* C4, amended: the same for every such message that does not trigger the
\* distress short-circuit (one that does is answered with the emergency
\* template and leaves the script where it was).
C4_NavigationResetsUnlessDistress ==
    [][ LET sessionId == sessionIdOf(request'.user_context)
            lowerMessage == toLowerCase(request'.message)
        IN  ( /\ Has(userSessions, sessionId)
              /\ userSessions[sessionId].currentService
                    \in {"wellness-coaching", "problem-solving",
                         "transformational-journaling", "health-advice"}
              /\ \/ includes(lowerMessage, "main menu")
                 \/ includes(lowerMessage, "services")
                 \/ includes(lowerMessage, "start over")
              /\ ~detectDistressLevel(request'.message).immediateResponse )
            => /\ response'.response = generateServiceSelectionResponse
               /\ userSessions'[sessionId].currentService = Undefined
               /\ userSessions'[sessionId].currentStep = Undefined
               /\ userSessions'[sessionId].progress = EmptyObject ]_vars

\* the main menu was returned and the session is blank, one turn after the
\* wellness script had answered with its next section (the stored turn is the
\* one before this one, this turn's write having failed)
C4_Witness ==
    /\ response.response = generateServiceSelectionResponse
    /\ isNavigation(toLowerCase(request.message))
    /\ userSessions["default"].currentService = Undefined
    /\ userSessions["default"].progress = EmptyObject
    /\ calls = <<[op |-> "upsert", error |-> TRUE, rows |-> 0]>>
    /\ Has(ivor_conversations, "c1")
    /\ ivor_conversations["c1"].updated_at = clock - 2
    /\ ivor_conversations["c1"].messages[2].content.t = "Section Complete / Next"

C6_RitualAdvancesStepByStep ==
    [][ LET message == request'.message
            lowerMessage == toLowerCase(message)
            morning == << "breathwork", "vision", "reframe", "affirmations",
                          "gratitude", "visualization" >>
            evening == << "wins", "lesson", "growth", "tomorrow-impact",
                          "tomorrow-leverage", "tomorrow-reality", "starter-actions" >>
            position(steps, step) == CHOOSE i \in DOMAIN steps : steps[i] = step
            stored(progress, entries) ==
                /\ Has(progress, entries)
                /\ \E key \in DOMAIN progress[entries] : progress[entries][key] = message
        IN  ( /\ message # ""
              /\ ~detectDistressLevel(message).immediateResponse
              /\ ~isNavigation(lowerMessage)
              /\ Has(userSessions, "default")
              /\ userSessions["default"].currentService = "transformational-journaling"
              /\ ~noCurrentRitual(userSessions["default"].progress) )
            => LET before == userSessions["default"].progress
                   after == userSessions'["default"].progress
               IN  IF before.currentRitual = "morning"
                   THEN LET i == position(morning, before.morningStep)
                        IN  IF i = 1
                            THEN after.morningStep =
                                    IF includes(lowerMessage, "ready") THEN "vision"
                                    ELSE "breathwork"
                            ELSE IF i < 6
                            THEN /\ after.morningStep = morning[i + 1]
                                 /\ stored(after, "morningEntries")
                            ELSE /\ stored(after, "morningEntries")
                                 /\ response'.response.t = "Morning Ritual Complete!"
                   ELSE LET i == position(evening, before.eveningStep)
                        IN  IF i < 7
                            THEN /\ after.eveningStep = evening[i + 1]
                                 /\ stored(after, "eveningEntries")
                            ELSE /\ stored(after, "eveningEntries")
                                 /\ response'.response.t = "Evening Ritual Complete!" ]_vars

\* "ready" was sent at the breathwork step and the ritual did not move on
C6_Witness ==
    /\ request.message = "ready"
    /\ Has(userSessions, "default")
    /\ userSessions["default"].currentService = "transformational-journaling"
    /\ userSessions["default"].progress.currentRitual = "morning"
    /\ userSessions["default"].progress.morningStep = "breathwork"
    /\ response.response = RitualChoicePrompt

\* C7, as stated: at the breathwork step of the morning ritual a message
\* without "ready" (no navigation, no distress) is answered with the
\* breathwork instructions and leaves morningStep at breathwork.
C7_BreathworkGateRepeats ==
    [][ LET message == request'.message
            lowerMessage == toLowerCase(message)
        IN  ( /\ message # ""
              /\ ~detectDistressLevel(message).immediateResponse
              /\ ~isNavigation(lowerMessage)
              /\ ~includes(lowerMessage, "ready")
              /\ Has(userSessions, "default")
              /\ userSessions["default"].currentService = "transformational-journaling"
              /\ ~noCurrentRitual(userSessions["default"].progress)
              /\ userSessions["default"].progress.currentRitual = "morning"
              /\ userSessions["default"].progress.morningStep = "breathwork" )
            => /\ response'.response = BreathworkInstructions
               /\ userSessions'["default"].progress.morningStep = "breathwork" ]_vars

\* a message without "ready" was sent at the breathwork step and the reply
\* asks again which ritual to begin
C7_Witness ==
    /\ request.message = "finish my thesis"
    /\ Has(userSessions, "default")
    /\ userSessions["default"].currentService = "transformational-journaling"
    /\ userSessions["default"].progress.currentRitual = "morning"
    /\ userSessions["default"].progress.morningStep = "breathwork"
    /\ response.response = RitualChoicePrompt

\* C8, as stated: with the problem description captured, every message
\* containing "circle of control" in any letter case is answered with the
\* Circle of Control frame around the captured problem.
C8_CircleOfControlAlwaysApplied ==
    [][ LET message == request'.message
            sessionId == sessionIdOf(request'.user_context)
        IN  ( /\ message # ""
              /\ Has(userSessions, sessionId)
              /\ userSessions[sessionId].currentService = "problem-solving"
              /\ Has(userSessions[sessionId].progress, "problemDescription")
              /\ includes(toLowerCase(message), "circle of control") )
            => /\ response'.response.t = "Applying mental model"
               /\ response'.response.args[1] = "Circle of Control" ]_vars

\* C8, amended: with the problem description captured, a message that is
\* neither navigation nor an immediate-distress message is answered with a
\* model's frame around the first 150 characters of the problem, never with
\* the choice prompt: the Circle of Control frame if the message contains
\* "circle of control" in any letter case and names none of the models listed
\* before it (First Principles, Inversion, Occam's Razor), the First
\* Principles frame if it names no model at all.
C8_ModelSelection ==
    [][ LET message == request'.message
            lowerMessage == toLowerCase(message)
            sessionId == sessionIdOf(request'.user_context)
            names(i) == modelMatches(MENTAL_MODELS[i], lowerMessage)
        IN  ( /\ message # ""
              /\ ~detectDistressLevel(message).immediateResponse
              /\ ~isNavigation(lowerMessage)
              /\ Has(userSessions, sessionId)
              /\ userSessions[sessionId].currentService = "problem-solving"
              /\ Has(userSessions[sessionId].progress, "problemDescription") )
            => LET problem == userSessions[sessionId].progress.problemDescription
                   shown == IF Len(problem) > 150
                            THEN SubSeq(problem, 1, 150) \o "..." ELSE problem
                   reply == response'.response
               IN  /\ reply.t = "Applying mental model"
                   /\ reply.args[2] = shown
                   /\ ( /\ includes(lowerMessage, "circle of control")
                        /\ \A i \in 1..3 : ~names(i) )
                      => /\ reply.args[1] = "Circle of Control"
                         /\ reply.args[6]
                              = "What aspects of this situation can I directly control?"
                         /\ userSessions'[sessionId].progress.selectedModel
                              = "circle-of-control"
                   /\ (\A i \in 1..5 : ~names(i))
                      => /\ reply.args[1] = "First Principles Thinking"
                         /\ reply.args[6]
                              = "What do we know to be absolutely true about this situation?" ]_vars

\* "Circle Of Control" was answered with the Circle of Control frame around a
\* problem longer than 150 characters
C8_Witness ==
    /\ request.message = "Circle Of Control"
    /\ Has(userSessions, "s1")
    /\ userSessions["s1"].currentService = "problem-solving"
    /\ Has(userSessions["s1"].progress, "selectedModel")
    /\ userSessions["s1"].progress.selectedModel = "circle-of-control"
    /\ Len(userSessions["s1"].progress.problemDescription) > 150
    /\ response.response.args[1] = "Circle of Control"

C11_FormatFallbackAndOrder ==
    result.op = "formatResourcesForResponse"
    => LET resources == result.value
           output == result.text
       IN  IF resources = NoArray \/ resources = <<>>
           THEN output = Text("I don't have specific resources for that request right now")
           ELSE LET text == output.args[1]
                    intro == IF result.context = "" THEN ""
                             ELSE result.context \o "\n\n"
                    opening == intro \o "Here are some resources that might help:\n\n"
                    closing == "Remember, you're not alone and support is available. Is there anything specific you'd like to know more about?"
                    listed == SubSeq(text, Len(opening) + 1, Len(text) - Len(closing))
                    starts ==
                        {i \in 1..(Len(listed) - 1) :
                            /\ SubSeq(listed, i, i + 1) = "**"
                            /\ i = 1 \/ (i >= 3 /\ SubSeq(listed, i - 2, i - 1) = "\n\n")}
                    nth(n) == CHOOSE i \in starts :
                                Cardinality({j \in starts : j < i}) = n - 1
                    heading(n) == "**" \o resources[n].title \o "**"
                IN  /\ Len(text) >= Len(opening) + Len(closing)
                    /\ SubSeq(text, 1, Len(opening)) = opening
                    /\ SubSeq(text, Len(text) - Len(closing) + 1, Len(text)) = closing
                    /\ Cardinality(starts) = Len(resources)
                    /\ \A n \in 1..Len(resources) :
                          /\ nth(n) + Len(heading(n)) - 1 <= Len(listed)
                          /\ SubSeq(listed, nth(n), nth(n) + Len(heading(n)) - 1)
                                = heading(n)

\* two rows of equal priority were received with the higher id first and
\* formatted under a context
C11_Witness ==
    /\ result.op = "formatResourcesForResponse"
    /\ result.context # ""
    /\ result.value # NoArray
    /\ Len(result.value) = 2
    /\ result.value[1].title = "Samaritans"
    /\ result.value[2].title = "Stonewall Housing"
    /\ result.value[1].priority = result.value[2].priority
    /\ result.text.t = "Here are some resources that might help"

\* C12, as stated: a turn sent under one conversation identifier leaves
\* unchanged the session that the requests of every caller with another
\* conversation identifier operate on.
C12_IdentifiersIsolateSessions ==
    [][ \A other \in CallerClients :
            other.conversation_id # request'.conversation_id
            => LET key == sessionIdOf(other.user_context)
                   sessionOf(sessions) ==
                       {sessions[k] : k \in DOMAIN sessions \cap {key}}
               IN  sessionOf(userSessions') = sessionOf(userSessions) ]_vars

\* C12, for callers that set user_context.session_id: a turn leaves unchanged
\* the session of every caller whose session_id is a different non-empty
\* string, and the session it works on is the one stored under its own
\* session_id.
C12_SessionIdIsolatesSessions ==
    [][ LET own == request'.user_context
        IN  (Has(own, "session_id") /\ request' # request)
            => /\ \A k \in DOMAIN userSessions \ {own.session_id} :
                     /\ k \in DOMAIN userSessions'
                     /\ userSessions'[k] = userSessions[k]
               /\ DOMAIN userSessions' \subseteq DOMAIN userSessions \cup {own.session_id}
               /\ \A other \in CallerClients :
                     ( /\ Has(other.user_context, "session_id")
                       /\ other.user_context.session_id # own.session_id )
                     => sessionIdOf(other.user_context) # sessionIdOf(own) ]_vars

\* the first message of the browser with conversation c2, "hello", was
\* answered as the answer to the first wellness section, which the browser
\* with conversation c1 had opened the turn before
C12_Witness ==
    /\ clock = 2
    /\ request = [message |-> "hello", conversation_id |-> "c2",
                  user_context |-> useChatClient("c2").user_context]
    /\ response.response.t = "Section Complete / Next"
    /\ Has(ivor_conversations, "c1")
    /\ ivor_conversations["c1"].messages[1].content = Text("wellness")
    /\ userSessions["default"].progress.responses["persona-snapshot"] = "hello"

\* C13: when the session has no active script (it is new, or was left for
\* the main menu), a message that does not trigger the distress
\* short-circuit starts the script of the first trigger it contains, in the
\* order health-advice, wellness-coaching, problem-solving,
\* transformational-journaling, whatever later triggers it also contains;
\* wellness-coaching enters with progress = {completedSections: [],
\* currentSection: id of the first section}, transformational-journaling with
\* progress = {journalEntries: {}, currentRitual: null} and currentStep =
\* 'time-identification'; the generic service / coaching check answers with
\* the main menu only when none of the four triggers is present.
C13_FirstTriggerStartsScript ==
    [][ LET message == request'.message
            has(k) == includes(toLowerCase(message), k)
            sessionId == sessionIdOf(request'.user_context)
            health == \/ has("health advice") \/ has("health guidance")
                      \/ has("sexual health") \/ has("mental health")
                      \/ has("physical health") \/ has("healthcare")
            wellness == has("wellness") \/ has("habit")
            problem == has("problem") \/ has("challenge") \/ has("stuck") \/ has("solve")
            journaling == \/ has("journal") \/ has("writing")
                          \/ has("reflection") \/ has("ritual")
            generic == has("service") \/ has("help with") \/ has("coaching")
        IN  ( /\ message # ""
              /\ ~detectDistressLevel(message).immediateResponse
              /\ Has(userSessions, sessionId)
                    => userSessions[sessionId].currentService = Undefined )
            => LET after == userSessions'[sessionId]
                   reply == response'.response
               IN  IF health
                   THEN /\ after.currentService = "health-advice"
                        /\ reply = Text("Health & Wellbeing Guidance")
                   ELSE IF wellness
                   THEN /\ after.currentService = "wellness-coaching"
                        /\ after.progress = [completedSections |-> <<>>,
                                             currentSection |-> "persona-snapshot"]
                        /\ after.progress.currentSection = WELLNESS_SECTIONS[1].id
                        /\ reply.t = "Welcome to Wellness & Habit Coaching"
                   ELSE IF problem
                   THEN /\ after.currentService = "problem-solving"
                        /\ reply = Text("Strategic Problem Solving")
                   ELSE IF journaling
                   THEN /\ after.currentService = "transformational-journaling"
                        /\ after.currentStep = "time-identification"
                        /\ after.progress = [journalEntries |-> EmptyObject,
                                             currentRitual |-> Null]
                        /\ reply = Text("Welcome to Transformational Journaling")
                   ELSE /\ after.currentService = Undefined
                        /\ generic => reply = Text("HEY BEAUTIFUL! I'M I.V.O.R.") ]_vars

\* on a session that had been left for the main menu, a message with a
\* wellness and a problem-solving trigger started wellness coaching
C13_Witness ==
    /\ clock = 3
    /\ request.message = "a habit I am stuck with"
    /\ userSessions["default"].startedAt = 0
    /\ userSessions["default"].currentService = "wellness-coaching"
    /\ userSessions["default"].progress.completedSections = <<>>
    /\ response.response = startWellnessCoaching

C15_SessionsLazyAndPermanent ==
    [][ LET message == request'.message
            sessionId == sessionIdOf(request'.user_context)
            processed == /\ request' # request \/ clock' # clock
                         /\ message # ""
                         /\ ~detectDistressLevel(message).immediateResponse
        IN  /\ DOMAIN userSessions \subseteq DOMAIN userSessions'
            /\ \A id \in DOMAIN userSessions :
                  /\ userSessions'[id].id = id
                  /\ userSessions'[id].startedAt = userSessions[id].startedAt
                  /\ id # sessionId => userSessions'[id] = userSessions[id]
            /\ IF processed
               THEN /\ DOMAIN userSessions' = DOMAIN userSessions \cup {sessionId}
                    /\ userSessions'[sessionId].id = sessionId
                    /\ userSessions'[sessionId].lastActivity = clock
                    /\ ~Has(userSessions, sessionId)
                          => userSessions'[sessionId].startedAt = clock
                    /\ ( /\ Has(userSessions, sessionId)
                         /\ userSessions[sessionId].currentService # Undefined
                         /\ ~isNavigation(toLowerCase(message)) )
                       => /\ userSessions'[sessionId].currentService
                                = userSessions[sessionId].currentService
                          /\ DOMAIN userSessions[sessionId].progress
                                \subseteq DOMAIN userSessions'[sessionId].progress
                          /\ response'.response # generateWelcomeResponse
               ELSE userSessions' = userSessions ]_vars

\* two sessions of different age: 'default', created by the first turn, has
\* answered its first wellness section in the third; 's1' was created by the
\* second turn
C15_Witness ==
    /\ clock = 3
    /\ DOMAIN userSessions = {"default", "s1"}
    /\ userSessions["default"].startedAt = 0
    /\ userSessions["default"].lastActivity = 2
    /\ userSessions["default"].currentService = "wellness-coaching"
    /\ Len(userSessions["default"].progress.completedSections) = 1
    /\ userSessions["s1"].startedAt = 1
    /\ userSessions["s1"].lastActivity = 1

\* C16: with c, h and m the numbers of critical, high and medium keywords
\* that occur in the text as substrings, letter case ignored, the classifier
\* returns critical with immediateResponse if c >= 1; otherwise high with
\* immediateResponse if h >= 2 or (h >= 1 and m >= 1); otherwise medium,
\* without immediateResponse and with followUpRequired, if h >= 1 or m >= 2;
\* otherwise low with followUpRequired false if m >= 1; otherwise low with no
\* indicators.  immediateResponse is true exactly for critical and high.
C16_ClassifyByCounts ==
    result.op = "detectDistressLevel"
    => LET text == lowerCase(result.message)
           count(keywords) ==
               Cardinality({i \in DOMAIN keywords : scan(text, keywords[i])})
           c == count(criticalKeywords)
           h == count(highKeywords)
           m == count(mediumKeywords)
           signal == result.signal
       IN  /\ Len(criticalKeywords) = 13 /\ Len(highKeywords) = 13
           /\ Len(mediumKeywords) = 10
           /\ IF c >= 1
              THEN signal.level = "critical" /\ signal.immediateResponse
              ELSE IF h >= 2 \/ (h >= 1 /\ m >= 1)
              THEN signal.level = "high" /\ signal.immediateResponse
              ELSE IF h >= 1 \/ m >= 2
              THEN /\ signal.level = "medium"
                   /\ ~signal.immediateResponse
                   /\ signal.followUpRequired
              ELSE IF m >= 1
              THEN /\ signal.level = "low"
                   /\ ~signal.immediateResponse
                   /\ ~signal.followUpRequired
                   /\ Len(signal.indicators) = m
              ELSE /\ signal.level = "low"
                   /\ ~signal.immediateResponse
                   /\ signal.indicators = <<>>
           /\ signal.immediateResponse <=> signal.level \in {"critical", "high"}

\* one high and one medium keyword, written with capitals, were classified
\* high
C16_Witness ==
    /\ result.op = "detectDistressLevel"
    /\ result.message = "hello Hopeless Worried"
    /\ result.signal.level = "high"
    /\ result.signal.indicators = <<"hopeless", "worried">>
    /\ result.signal.immediateResponse

C18_ModelSelectedByNameOrSpacedId ==
    [][ LET message == request'.message
            lowerMessage == toLowerCase(message)
            spaced == << "first principles", "inversion", "occams razor",
                         "circle of control", "second order thinking" >>
            named(i) == \/ includes(lowerMessage, toLowerCase(MENTAL_MODELS[i].name))
                        \/ includes(lowerMessage, spaced[i])
        IN  ( /\ message # ""
              /\ ~detectDistressLevel(message).immediateResponse
              /\ ~isNavigation(lowerMessage)
              /\ Has(userSessions, "default")
              /\ userSessions["default"].currentService = "problem-solving"
              /\ Has(userSessions["default"].progress, "problemDescription") )
            => \A i \in 1..5 :
                 (named(i) /\ \A j \in 1..5 \ {i} : ~named(j))
                 => /\ response'.response.t = "Applying mental model"
                    /\ response'.response.args[1] = MENTAL_MODELS[i].name
                    /\ response'.response.args[6] = MENTAL_MODELS[i].questions[1]
                    /\ Has(userSessions'["default"].progress, "selectedModel")
                    /\ userSessions'["default"].progress.selectedModel
                          = MENTAL_MODELS[i].id ]_vars

\* C18, what the code does: the same holds for the name of each of the five
\* models and for the strings first principles, inversion and occams razor;
\* a message that names no model by its name or by its id with the first
\* hyphen replaced by a space gets the First Principles frame and sets no
\* selectedModel.
C18_ModelSelectedByName ==
    [][ LET message == request'.message
            lowerMessage == toLowerCase(message)
            spaced == << "first principles", "inversion", "occams razor",
                         "circle of-control", "second order-thinking" >>
            named(i) == \/ includes(lowerMessage, toLowerCase(MENTAL_MODELS[i].name))
                        \/ includes(lowerMessage, spaced[i])
        IN  ( /\ message # ""
              /\ ~detectDistressLevel(message).immediateResponse
              /\ ~isNavigation(lowerMessage)
              /\ Has(userSessions, "default")
              /\ userSessions["default"].currentService = "problem-solving"
              /\ Has(userSessions["default"].progress, "problemDescription") )
            => /\ \A i \in 1..5 :
                    (named(i) /\ \A j \in 1..5 \ {i} : ~named(j))
                    => /\ response'.response.args[1] = MENTAL_MODELS[i].name
                       /\ userSessions'["default"].progress.selectedModel
                             = MENTAL_MODELS[i].id
               /\ (\A i \in 1..5 : ~named(i))
                    => /\ response'.response.args[1] = "First Principles Thinking"
                       /\ userSessions'["default"].progress
                             = userSessions["default"].progress ]_vars

\* "second order thinking" was answered with the First Principles frame and
\* no model was recorded as selected
C18_Witness ==
    /\ clock = 3
    /\ request.message = "second order thinking"
    /\ userSessions["default"].currentService = "problem-solving"
    /\ userSessions["default"].progress.problemDescription = "my rent went up"
    /\ ~Has(userSessions["default"].progress, "selectedModel")
    /\ response.response.t = "Applying mental model"
    /\ response.response.args[1] = "First Principles Thinking"

\* C19, as stated: in transformational journaling a message that is neither
\* navigation nor an immediate-distress message, received while no ritual is
\* chosen, chooses the morning ritual (currentRitual = morning, morningStep =
\* breathwork, morning start text) if it contains "morning" in any letter
\* case, otherwise the evening ritual (currentRitual = evening, eveningStep =
\* wins, evening start text) if it contains "evening", and otherwise leaves
\* service, step and progress as they were and asks again; received after a
\* ritual was chosen, it makes no new choice: currentRitual stays, and the
\* reply is neither the question for the choice nor the start text of the
\* other ritual.
C19_RitualChosenOnce ==
    [][ LET message == request'.message
            lowerMessage == toLowerCase(message)
        IN  ( /\ message # ""
              /\ ~detectDistressLevel(message).immediateResponse
              /\ ~isNavigation(lowerMessage)
              /\ Has(userSessions, "default")
              /\ userSessions["default"].currentService = "transformational-journaling" )
            => LET before == userSessions["default"]
                   after == userSessions'["default"]
                   reply == response'.response
               IN  IF noCurrentRitual(before.progress)
                   THEN IF includes(lowerMessage, "morning")
                        THEN /\ after.progress.currentRitual = "morning"
                             /\ after.progress.morningStep = "breathwork"
                             /\ reply = startMorningRitual
                        ELSE IF includes(lowerMessage, "evening")
                        THEN /\ after.progress.currentRitual = "evening"
                             /\ after.progress.eveningStep = "wins"
                             /\ reply = startEveningRitual
                        ELSE /\ after.progress = before.progress
                             /\ after.currentService = before.currentService
                             /\ after.currentStep = before.currentStep
                             /\ reply = RitualChoicePrompt
                   ELSE /\ after.progress.currentRitual = before.progress.currentRitual
                        /\ reply # RitualChoicePrompt
                        /\ before.progress.currentRitual = "morning"
                              => reply # startEveningRitual
                        /\ before.progress.currentRitual = "evening"
                              => reply # startMorningRitual ]_vars

\* C19, what the code does: the choice is made on every message of the
\* dialogue that is neither navigation nor an immediate-distress message,
\* whether or not a ritual is already chosen.
C19_RitualChosenOnEveryMessage ==
    [][ LET message == request'.message
            lowerMessage == toLowerCase(message)
        IN  ( /\ message # ""
              /\ ~detectDistressLevel(message).immediateResponse
              /\ ~isNavigation(lowerMessage)
              /\ Has(userSessions, "default")
              /\ userSessions["default"].currentService = "transformational-journaling" )
            => LET before == userSessions["default"]
                   after == userSessions'["default"]
                   reply == response'.response
               IN  /\ after.currentStep = "time-identification"
                   /\ IF includes(lowerMessage, "morning")
                      THEN /\ after.progress.currentRitual = "morning"
                           /\ after.progress.morningStep = "breathwork"
                           /\ reply = startMorningRitual
                      ELSE IF includes(lowerMessage, "evening")
                      THEN /\ after.progress.currentRitual = "evening"
                           /\ after.progress.eveningStep = "wins"
                           /\ reply = startEveningRitual
                      ELSE /\ after.progress = before.progress
                           /\ reply = RitualChoicePrompt ]_vars

\* with the morning ritual chosen and at its breathwork step, "evening" was
\* answered with the evening start text and made the evening ritual current
C19_Witness ==
    /\ request.message = "evening"
    /\ Has(userSessions, "default")
    /\ userSessions["default"].currentService = "transformational-journaling"
    /\ Has(userSessions["default"].progress, "morningStep")
    /\ userSessions["default"].progress.morningStep = "breathwork"
    /\ userSessions["default"].progress.currentRitual = "evening"
    /\ userSessions["default"].progress.eveningStep = "wins"
    /\ response.response = startEveningRitual

C22_FirstMessageIsDescription ==
    [][ LET message == request'.message
            lowerMessage == toLowerCase(message)
            sessionId == sessionIdOf(request'.user_context)
            active == /\ Has(userSessions, sessionId)
                      /\ userSessions[sessionId].currentService = "problem-solving"
            described == active /\ Has(userSessions[sessionId].progress,
                                       "problemDescription")
            after == userSessions'[sessionId]
        IN  /\ (active /\ message # "" /\ ~isNavigation(lowerMessage))
                => /\ after.currentService = "problem-solving"
                   /\ Has(after.progress, "problemDescription")
                   /\ after.progress.problemDescription =
                        IF described
                        THEN userSessions[sessionId].progress.problemDescription
                        ELSE message
            /\ (described /\ ~Has(after.progress, "problemDescription"))
                => /\ isNavigation(lowerMessage)
                   /\ after.currentService = Undefined
                   /\ response'.response = generateServiceSelectionResponse
            /\ (~active /\ Has(userSessions', sessionId)
                         /\ after.currentService = "problem-solving")
                => after.progress = EmptyObject ]_vars

\* C22, as the code has it: the description is set by the first message
\* after entry that neither is a navigation message nor triggers the
\* distress short-circuit; a message that triggers the short-circuit is
\* answered with the emergency template and leaves the session as it was.
C22_FirstHandledMessageIsDescription ==
    [][ LET message == request'.message
            lowerMessage == toLowerCase(message)
            sessionId == sessionIdOf(request'.user_context)
            active == /\ Has(userSessions, sessionId)
                      /\ userSessions[sessionId].currentService = "problem-solving"
            described == active /\ Has(userSessions[sessionId].progress,
                                       "problemDescription")
            immediate == detectDistressLevel(message).immediateResponse
            after == userSessions'[sessionId]
        IN  /\ (active /\ message # "" /\ ~isNavigation(lowerMessage) /\ ~immediate)
                => /\ after.currentService = "problem-solving"
                   /\ Has(after.progress, "problemDescription")
                   /\ after.progress.problemDescription =
                        IF described
                        THEN userSessions[sessionId].progress.problemDescription
                        ELSE message
            /\ (active /\ message # "" /\ immediate)
                => /\ userSessions' = userSessions
                   /\ response'.emergency_protocol_activated
            /\ (described /\ ~Has(after.progress, "problemDescription"))
                => /\ isNavigation(lowerMessage)
                   /\ after.currentService = Undefined
                   /\ response'.response = generateServiceSelectionResponse
            /\ (~active /\ Has(userSessions', sessionId)
                         /\ after.currentService = "problem-solving")
                => after.progress = EmptyObject ]_vars

\* problem solving was entered by the fourth turn of the session, and the
\* first message sent to it, which names a model and triggers the
\* short-circuit, was answered with the emergency template and left the
\* description unset
C22_Witness ==
    /\ clock = 5
    /\ request.message = "Inversion, I feel hopeless and alone"
    /\ response.emergency_protocol_activated
    /\ userSessions["default"].currentService = "problem-solving"
    /\ userSessions["default"].progress = EmptyObject
    /\ userSessions["default"].lastActivity = 3

C25_MatchedModelIsSelected ==
    [][ LET message == request'.message
            lowerMessage == toLowerCase(message)
            sessionId == sessionIdOf(request'.user_context)
            matched == {i \in DOMAIN MENTAL_MODELS :
                            modelMatches(MENTAL_MODELS[i], lowerMessage)}
        IN  ( /\ Has(userSessions, sessionId)
              /\ userSessions[sessionId].currentService = "problem-solving"
              /\ Has(userSessions[sessionId].progress, "problemDescription")
              /\ message # ""
              /\ ~isNavigation(lowerMessage) )
            => LET before == userSessions[sessionId]
                   after == userSessions'[sessionId]
               IN  /\ after.currentService = "problem-solving"
                   /\ after.currentStep = before.currentStep
                   /\ after.progress.problemDescription =
                        before.progress.problemDescription
                   /\ DOMAIN after.progress \subseteq {"problemDescription", "selectedModel"}
                   /\ Has(after.progress, "selectedModel")
                        => \E i \in DOMAIN MENTAL_MODELS :
                              after.progress.selectedModel = MENTAL_MODELS[i].id
                   /\ \A i \in matched :
                        /\ Has(after.progress, "selectedModel")
                        /\ after.progress.selectedModel = MENTAL_MODELS[i].id
                   /\ matched = {}
                        => /\ after.progress = before.progress
                           /\ response'.response.t = "Applying mental model"
                           /\ response'.response.args[1] = "First Principles Thinking"
      ]_vars

\* C25, as the code has it: the model selected is the first of the list
\* (First Principles, Inversion, Occam's Razor, Circle of Control,
\* Second-Order Thinking) that the message matches, and a message that
\* triggers the distress short-circuit selects nothing and leaves the session
\* as it was.
C25_FirstMatchedModelIsSelected ==
    [][ LET message == request'.message
            lowerMessage == toLowerCase(message)
            sessionId == sessionIdOf(request'.user_context)
            matched == {i \in DOMAIN MENTAL_MODELS :
                            modelMatches(MENTAL_MODELS[i], lowerMessage)}
            immediate == detectDistressLevel(message).immediateResponse
        IN  ( /\ Has(userSessions, sessionId)
              /\ userSessions[sessionId].currentService = "problem-solving"
              /\ Has(userSessions[sessionId].progress, "problemDescription")
              /\ message # ""
              /\ ~isNavigation(lowerMessage) )
            => LET before == userSessions[sessionId]
                   after == userSessions'[sessionId]
               IN  /\ after.currentService = "problem-solving"
                   /\ after.currentStep = before.currentStep
                   /\ after.progress.problemDescription =
                        before.progress.problemDescription
                   /\ DOMAIN after.progress \subseteq {"problemDescription", "selectedModel"}
                   /\ Has(after.progress, "selectedModel")
                        => \E i \in DOMAIN MENTAL_MODELS :
                              after.progress.selectedModel = MENTAL_MODELS[i].id
                   /\ immediate
                        => /\ userSessions' = userSessions
                           /\ response'.emergency_protocol_activated
                   /\ (~immediate /\ matched # {})
                        => LET first == CHOOSE i \in matched : \A j \in matched : i <= j
                           IN  /\ after.progress =
                                    Put(before.progress, "selectedModel",
                                        MENTAL_MODELS[first].id)
                               /\ response'.response.t = "Applying mental model"
                               /\ response'.response.args[1] = MENTAL_MODELS[first].name
                   /\ (~immediate /\ matched = {})
                        => /\ after.progress = before.progress
                           /\ response'.response.t = "Applying mental model"
                           /\ response'.response.args[1] = "First Principles Thinking"
      ]_vars

\* Inversion was selected, and a later message that names no model got the
\* First Principles frame and left Inversion selected
C25_Witness ==
    /\ request.message = "tell me more"
    /\ response.response.t = "Applying mental model"
    /\ response.response.args[1] = "First Principles Thinking"
    /\ userSessions["default"].currentService = "problem-solving"
    /\ Has(userSessions["default"].progress, "selectedModel")
    /\ userSessions["default"].progress.selectedModel = "inversion"
    /\ userSessions["default"].lastActivity = clock - 1

\* C26, as stated: the stored record of a conversation id is its message
\* history.  Every chat turn that is not an emergency turn and whose write
\* to the conversation store succeeds appends the user's message and the
\* assistant's reply, in this order, to the messages already recorded under
\* its conversation id, and GET /api/conversation/:id returns the record; so
\* after n such turns the record read back holds all n messages and all n
\* replies in the order they were exchanged.
C26_RecordIsMessageHistory ==
    [][ /\ ( /\ request'.message # ""
             /\ clock' = clock + 1
             /\ ~response'.emergency_protocol_activated
             /\ response'.status = 200
             /\ Len(calls') > 0
             /\ calls'[Len(calls')] = [op |-> "upsert", error |-> FALSE, rows |-> 0] )
            => LET id == request'.conversation_id
                   earlier == IF Has(ivor_conversations, id)
                              THEN ivor_conversations[id].messages ELSE <<>>
                   recorded == ivor_conversations'[id].messages
               IN  /\ Len(recorded) = Len(earlier) + 2
                   /\ SubSeq(recorded, 1, Len(earlier)) = earlier
                   /\ recorded[Len(earlier) + 1].role = "user"
                   /\ recorded[Len(earlier) + 1].content = Text(request'.message)
                   /\ recorded[Len(earlier) + 2].role = "assistant"
                   /\ recorded[Len(earlier) + 2].content = response'.response
        /\ (result' # result /\ result'.op = "getConversation" /\ ~result'.error)
            => result'.conversation =
                    IF Has(ivor_conversations, result'.id)
                    THEN ivor_conversations[result'.id] ELSE NullConversation ]_vars

\* C26, what the code keeps: the record of a conversation id holds the last
\* exchange that was stored under it, and nothing else.  A stored turn
\* replaces the messages of its conversation id by the pair (user message,
\* assistant reply) of that turn and leaves the records of the other ids as
\* they were; an emergency turn stores nothing; GET returns the record, or
\* null when there is none.
C26_RecordIsLastExchange ==
    [][ /\ ( /\ request'.message # ""
             /\ clock' = clock + 1
             /\ ~response'.emergency_protocol_activated
             /\ response'.status = 200
             /\ Len(calls') > 0
             /\ calls'[Len(calls')] = [op |-> "upsert", error |-> FALSE, rows |-> 0] )
            => LET id == request'.conversation_id
                   recorded == ivor_conversations'[id].messages
               IN  /\ Len(recorded) = 2
                   /\ recorded[1].role = "user"
                   /\ recorded[1].content = Text(request'.message)
                   /\ recorded[2].role = "assistant"
                   /\ recorded[2].content = response'.response
                   /\ \A other \in DOMAIN ivor_conversations \ {id} :
                        ivor_conversations'[other] = ivor_conversations[other]
        /\ (clock' = clock + 1 /\ response'.emergency_protocol_activated)
            => ivor_conversations' = ivor_conversations
        /\ (result' # result /\ result'.op = "getConversation" /\ ~result'.error)
            => result'.conversation =
                    IF Has(ivor_conversations, result'.id)
                    THEN ivor_conversations[result'.id] ELSE NullConversation ]_vars

\* two turns were routed, the second one ("need housing") stored under c1
\* and nothing under c2, and the record of c1 read back holds that exchange
\* alone
C26_Witness ==
    /\ clock = 2
    /\ Has(userSessions, "default")
    /\ userSessions["default"].startedAt = 0
    /\ userSessions["default"].lastActivity = 1
    /\ request.conversation_id = "c1"
    /\ request.message = "need housing"
    /\ ~Has(ivor_conversations, "c2")
    /\ result.op = "getConversation"
    /\ result.id = "c1"
    /\ result.conversation # NullConversation
    /\ Len(result.conversation.messages) = 2
    /\ result.conversation.messages[1].content = Text("need housing")

\* C27, as stated: chat turns of one session that are in flight together
\* behave as if handled one after another.  No turn writes to the session
\* after it was suspended at an await of store I/O (so its reads and writes
\* of the session lie in one uninterrupted step), and whenever every turn
\* received has been answered, the replies and the currentService,
\* currentStep and progress of every session are those of the same turns
\* handled one at a time in some order.
C27_NoAwaitBetweenReadAndWrite ==
    [][ /\ \A t \in TurnIds :
             (inflight[t].pc \in {"lookup", "store"} /\ inflight'[t].pc # inflight[t].pc)
             => scriptState(userSessions') = scriptState(userSessions)
        /\ LET received == {t \in TurnIds : inflight'[t].pc # "idle"}
               orders == {order \in [1..Cardinality(received) -> received] :
                            \A i, j \in DOMAIN order : order[i] = order[j] => i = j}
           IN  (\A t \in received : inflight'[t].pc = "sent")
               => \E order \in orders :
                    \E r \in serialRuns(order, inflight', EmptyObject, ivor_resources) :
                        /\ scriptState(r.sessions) = scriptState(userSessions')
                        /\ r.replies = {<<t, inflight'[t].reply>> : t \in received}
      ]_vars

\* C27, as the code has it: one turn does write to the session after an
\* await of resource-store I/O.  A message without a script trigger that
\* contains help, support or resource and also main menu or start over
\* awaits searchResources, and when the search hands back no rows the turn
\* goes on to clear currentService, currentStep and progress and to answer
\* with the main menu; no other resumed turn writes to the session.  The
\* outcome is serialisable all the same: whenever every turn received has
\* been answered, replies and script state are those of the turns handled
\* one at a time in some order.
C27_SerialisableWithLateReset ==
    [][ /\ \A t \in TurnIds :
             ( /\ inflight[t].pc \in {"lookup", "store"}
               /\ inflight'[t].pc # inflight[t].pc
               /\ scriptState(userSessions') # scriptState(userSessions) )
             => LET lowerMessage == toLowerCase(inflight[t].message)
                    after == userSessions'[sessionIdOf(inflight[t].user_context)]
                IN  /\ inflight[t].pc = "lookup"
                    /\ \/ scan(lowerMessage, "help")
                       \/ scan(lowerMessage, "support")
                       \/ scan(lowerMessage, "resource")
                    /\ scan(lowerMessage, "main menu") \/ scan(lowerMessage, "start over")
                    /\ calls' = <<[op |-> "searchResources", error |-> calls'[1].error,
                                   rows |-> 0]>>
                    /\ inflight'[t].reply = generateServiceSelectionResponse
                    /\ after.currentService = Undefined
                    /\ after.currentStep = Undefined
                    /\ after.progress = EmptyObject
        /\ LET received == {t \in TurnIds : inflight'[t].pc # "idle"}
               orders == {order \in [1..Cardinality(received) -> received] :
                            \A i, j \in DOMAIN order : order[i] = order[j] => i = j}
           IN  (\A t \in received : inflight'[t].pc = "sent")
               => \E order \in orders :
                    \E r \in serialRuns(order, inflight', EmptyObject, ivor_resources) :
                        /\ scriptState(r.sessions) = scriptState(userSessions')
                        /\ r.replies = {<<t, inflight'[t].reply>> : t \in received}
      ]_vars

\* "support, main menu" was received first and suspended at its search;
\* "wellness" then entered the wellness script and was answered; the first
\* turn, resumed with no rows, cleared the session and answered with the
\* main menu
C27_Witness ==
    /\ inflight[1].message = "support, main menu"
    /\ inflight[1].pc = "sent"
    /\ inflight[1].reply = generateServiceSelectionResponse
    /\ inflight[2].message = "wellness"
    /\ inflight[2].pc = "sent"
    /\ inflight[2].reply = startWellnessCoaching
    /\ userSessions["default"].currentService = Undefined
    /\ userSessions["default"].progress = EmptyObject
    /\ userSessions["default"].lastActivity = 1

\* C28: in every reachable state, a session whose currentService is absent
\* has empty progress and no currentStep; and a turn that starts a script
\* leaves in progress nothing but what that script's entry puts there
\* (wellness: completedSections and currentSection; journaling:
\* journalEntries and currentRitual; problem solving and health advice:
\* nothing), so no key of an earlier dialogue is seen.
C28_IdleSessionHoldsNoScriptData ==
    [][ /\ \A id \in DOMAIN userSessions' :
             userSessions'[id].currentService = Undefined
             => /\ userSessions'[id].progress = EmptyObject
                /\ userSessions'[id].currentStep = Undefined
        /\ \A id \in DOMAIN userSessions' :
             ( /\ userSessions'[id].currentService # Undefined
               /\ Has(userSessions, id) => userSessions[id].currentService = Undefined )
             => LET service == userSessions'[id].currentService
                    progress == userSessions'[id].progress
                IN  progress =
                      IF service = "wellness-coaching"
                      THEN [completedSections |-> <<>>,
                            currentSection |-> "persona-snapshot"]
                      ELSE IF service = "transformational-journaling"
                      THEN [journalEntries |-> EmptyObject, currentRitual |-> Null]
                      ELSE EmptyObject ]_vars

\* a session that is not new and is idle after a main menu turn: no step
\* pointer and no progress key is in it
C28_Witness ==
    /\ clock = 3
    /\ request.message = "main menu"
    /\ response.response = generateServiceSelectionResponse
    /\ Has(userSessions, "default")
    /\ userSessions["default"].startedAt = 0
    /\ userSessions["default"].lastActivity = 2
    /\ userSessions["default"].currentService = Undefined
    /\ userSessions["default"].currentStep = Undefined
    /\ userSessions["default"].progress = EmptyObject
    /\ Has(ivor_conversations, "c1")
    /\ ivor_conversations["c1"].updated_at = 2

\* C29: in every reachable state the currentService of every session is
\* absent or one of wellness-coaching, problem-solving,
\* transformational-journaling, health-advice; so the dispatcher's default
\* branch, which answers with the general community resources text whatever
\* the message says, is never taken.
C29_ServiceIsOneOfFourScripts ==
    /\ \A id \in DOMAIN userSessions :
          userSessions[id].currentService \in
              {Undefined, "wellness-coaching", "problem-solving",
               "transformational-journaling", "health-advice"}
    /\ response.response # Text("COMMUNITY RESOURCES AVAILABLE")

\* "community events", sent while health advice is active, was answered by
\* the health advice script
C29_Witness ==
    /\ clock = 2
    /\ request.message = "community events"
    /\ Has(userSessions, "default")
    /\ userSessions["default"].currentService = "health-advice"
    /\ userSessions["default"].lastActivity = 1
    /\ response.response = generateHealthTopicsMenu

\* C30: the distress classification is monotone in the text.  For texts a
\* and b, the level of a followed by b is at least the level of a and at
\* least the level of b in the order low < medium < high < critical, and
\* immediateResponse of a followed by b is true if it is true of a or of b.
C30_ClassificationMonotone ==
    LET rank(level) ==
            CASE level = "low" -> 0
              [] level = "medium" -> 1
              [] level = "high" -> 2
              [] level = "critical" -> 3
    IN  (result.op = "detectDistressLevel" /\ Has(result, "signalBoth"))
        => /\ rank(result.signalBoth.level) >= rank(result.signal.level)
           /\ rank(result.signalBoth.level) >= rank(result.signalAppended.level)
           /\ (result.signal.immediateResponse \/ result.signalAppended.immediateResponse)
                => result.signalBoth.immediateResponse

\* "alones" holds one high keyword and is medium, "ad " holds none and is
\* low; "alonesad " also holds the medium keyword "sad", made across the
\* join, and is high
C30_Witness ==
    /\ result.op = "detectDistressLevel"
    /\ Has(result, "signalBoth")
    /\ result.message = "alones"
    /\ result.appended = "ad "
    /\ result.signal.level = "medium"
    /\ result.signalAppended.level = "low"
    /\ result.signalBoth.level = "high"
    /\ result.signalBoth.immediateResponse
====
